---- MODULE Spec2Model ----
(***************************************************************************)
(* Student progress tracking of coursebuilder/models/progress.py:          *)
(* UnitLessonCompletionTracker, its key codec, its cascade of updaters and *)
(* the StudentPropertyEntity store it loads from and puts to.              *)
(*                                                                         *)
(* A progress key such as 'u.1.l.1.a.0.b.0' is represented by the list of  *)
(* its '.'-separated tokens, <<"u","1","l","1","a","0","b","0">>; ids are  *)
(* the strings that '%s' formatting produces.                              *)
(***************************************************************************)
EXTENDS Integers, Sequences, FiniteSets, TLC

VARIABLES
    course,     \* the course of the tracker at the moment
    store,      \* student -> the StudentPropertyEntity stored for PROPERTY_KEY
    last,       \* how the operation performed last ended
    fs,         \* whether course.app_context.fs yields the activity files
    procs,      \* request -> where a concurrent _put_event stands
    started,    \* the number of concurrent requests started so far
    codec,      \* ids, and the key text built from them and taken apart
    agg,        \* the ProgressAggregator and the entities it has visited
    json,       \* a text handed to transforms.loads and what came of it
    questions   \* the question statistics of the question aggregator

vars ==
    <<course, store, last, fs, procs, started, codec, agg, json, questions>>

----------------------------------------------------------------------------
(* Bounds of the model *)

\* Largest value a leaf counter is driven to.
MaxCount == 2

\* Largest number of concurrent requests started in a behaviour.
MaxRequests == 3

\* Largest number of characters of an id of the key codec.
MaxIdLen == 2

\* Largest number of entities that the aggregator visits.
MaxVisits == 3

\* Largest number of values (strings, objects, arrays) of a JSON text.
MaxNodes == 4

\* Largest number of summarized questions that the question aggregator is
\* given, and largest number of answers of one of them.
MaxAppends == 2

MaxAnswers == 2

----------------------------------------------------------------------------
(* Constants of UnitLessonCompletionTracker *)

NOT_STARTED_STATE == 0
IN_PROGRESS_STATE == 1
COMPLETED_STATE == 2

\* Python's None as returned by _get_entity_value and dict.get.
None == -1

EVENT_CODE_MAPPING ==
    [unit |-> "u", lesson |-> "l", activity |-> "a", html |-> "h",
     block |-> "b", assessment |-> "s", component |-> "c"]

COMPOSITE_ENTITIES ==
    {EVENT_CODE_MAPPING.unit, EVENT_CODE_MAPPING.lesson,
     EVENT_CODE_MAPPING.activity, EVENT_CODE_MAPPING.html}

----------------------------------------------------------------------------------------------------------------------------------------
(* The course held by the tracker (self._course): its units, of type 'U'  *)
(* (unit) or 'A' (assessment), and its lessons.  A lesson says whether it *)
(* has an activity, which indices of its activity file are dict blocks    *)
(* and which instanceids its trackable components have.                    *)

CourseA ==
    [units |-> {[unit_id |-> "1", type |-> "U"],
                [unit_id |-> "Pre", type |-> "A"]},
     lessons |-> {[unit_id |-> "1", lesson_id |-> "1", activity |-> TRUE,
                   blocks |-> {"0"}, components |-> {}],
                  [unit_id |-> "1", lesson_id |-> "2", activity |-> FALSE,
                   blocks |-> {}, components |-> {"c1"}]}]

CourseB ==
    [units |-> {[unit_id |-> "1", type |-> "U"],
                [unit_id |-> "2", type |-> "U"]},
     lessons |-> {[unit_id |-> "1", lesson_id |-> "1", activity |-> TRUE,
                   blocks |-> {"0", "1"}, components |-> {"c1"}],
                  [unit_id |-> "2", lesson_id |-> "3", activity |-> TRUE,
                   blocks |-> {}, components |-> {}]}]

Courses == {CourseA, CourseB}

\* course.get_units()
get_units == course.units

\* course.get_lessons(unit_id)
get_lessons(unit_id) == {l \in course.lessons : l.unit_id = unit_id}

\* course.is_valid_unit_lesson_id(unit_id, lesson_id)
is_valid_unit_lesson_id(unit_id, lesson_id) ==
    /\ \E u \in get_units : u.unit_id = unit_id /\ u.type = "U"
    /\ \E l \in get_lessons(unit_id) : l.lesson_id = lesson_id

\* course.is_valid_assessment_id(assessment_id)
is_valid_assessment_id(assessment_id) ==
    \E u \in get_units : u.unit_id = assessment_id /\ u.type = "A"

\* The ids of the dict blocks of the activity, when the unit and the lesson
\* exist and the lesson has an activity; no id otherwise.
get_valid_block_ids(unit_id, lesson_id) ==
    UNION {l.blocks : l \in {x \in get_lessons(unit_id) :
                                x.lesson_id = lesson_id /\ x.activity}}

\* How the file system answers when an activity file is loaded: every load
\* succeeds ("ok"), every load fails ("fails"), or the first load of an
\* operation succeeds and the later ones fail ("fails_later").
FsStates == {"ok", "fails", "fails_later"}

\* The exception that leaves _get_valid_blocks_data at the nth enumeration
\* of an operation, "ok" when it returns.  get_activity_as_python is called
\* only when the unit and the lesson exist and the lesson has an activity.
_get_valid_blocks_data_exc(unit_id, lesson_id, nth) ==
    IF /\ \E l \in get_lessons(unit_id) :
              l.lesson_id = lesson_id /\ l.activity
       /\ \/ fs = "fails"
          \/ fs = "fails_later" /\ nth > 1
    THEN "Exception"
    ELSE "ok"

\* The calls of get_activity_as_python that one _get_valid_blocks_data makes:
\* one when the unit and the lesson exist and the lesson has an activity.
_get_valid_blocks_data_calls(unit_id, lesson_id) ==
    IF \E l \in get_lessons(unit_id) : l.lesson_id = lesson_id /\ l.activity
    THEN <<"get_activity_as_python">>
    ELSE <<>>

\* The instanceids of the trackable components of the lesson.
get_valid_component_ids(unit_id, lesson_id) ==
    UNION {l.components : l \in {x \in get_lessons(unit_id) :
                                    x.lesson_id = lesson_id}}

----------------
(* Key codec *)

_get_unit_key(unit_id) == <<EVENT_CODE_MAPPING.unit, unit_id>>

_get_lesson_key(unit_id, lesson_id) ==
    <<EVENT_CODE_MAPPING.unit, unit_id, EVENT_CODE_MAPPING.lesson, lesson_id>>

_get_activity_key(unit_id, lesson_id) ==
    <<EVENT_CODE_MAPPING.unit, unit_id, EVENT_CODE_MAPPING.lesson, lesson_id,
      EVENT_CODE_MAPPING.activity, "0">>

_get_html_key(unit_id, lesson_id) ==
    <<EVENT_CODE_MAPPING.unit, unit_id, EVENT_CODE_MAPPING.lesson, lesson_id,
      EVENT_CODE_MAPPING.html, "0">>

_get_component_key(unit_id, lesson_id, component_id) ==
    <<EVENT_CODE_MAPPING.unit, unit_id, EVENT_CODE_MAPPING.lesson, lesson_id,
      EVENT_CODE_MAPPING.html, "0", EVENT_CODE_MAPPING.component, component_id>>

_get_block_key(unit_id, lesson_id, block_id) ==
    <<EVENT_CODE_MAPPING.unit, unit_id, EVENT_CODE_MAPPING.lesson, lesson_id,
      EVENT_CODE_MAPPING.activity, "0", EVENT_CODE_MAPPING.block, block_id>>

\* _get_assessment_key with the code of the unit.
_get_assessment_key_unit_code(assessment_id) ==
    <<EVENT_CODE_MAPPING.unit, assessment_id>>

_get_assessment_key(assessment_id) ==
    <<EVENT_CODE_MAPPING.assessment, assessment_id>>

\* progress_entity_key.split('.')[-2]
get_entity_type_from_key(progress_entity_key) ==
    progress_entity_key[Len(progress_entity_key) - 1]

determine_if_composite_entity(progress_entity_key) ==
    get_entity_type_from_key(progress_entity_key) \in COMPOSITE_ENTITIES

\* lambda s: '.'.join(s.split('.')[:-2])
generate_parent_id(s) == SubSeq(s, 1, Len(s) - 2)

----------------------------------------------------------------------------
(* The key codec on the text of a key.  A text is the list of its          *)
(* characters; an id is the text that '%s' formatting gives it.            *)

\* '.'.join(parts)
RECURSIVE str_join(_)
str_join(parts) ==
    IF Len(parts) = 0 THEN <<>>
    ELSE IF Len(parts) = 1 THEN parts[1]
    ELSE parts[1] \o <<".">> \o str_join(Tail(parts))

\* text.split('.')
RECURSIVE str_split(_)
str_split(text) ==
    IF \A i \in 1..Len(text) : text[i] # "."
    THEN <<text>>
    ELSE LET dot == CHOOSE i \in 1..Len(text) :
                        text[i] = "." /\ \A j \in 1..(i - 1) : text[j] # "."
         IN <<SubSeq(text, 1, dot - 1)>>
                \o str_split(SubSeq(text, dot + 1, Len(text)))

\* The text that the '%s.%s...' format of a _get_*_key gives for the tokens
\* k: the tokens at the odd places are the codes of EVENT_CODE_MAPPING, the
\* sixth is the literal 0, the others are the ids.
str_format(k) ==
    str_join([i \in 1..Len(k) |->
                 IF i % 2 = 1 \/ i = 6 THEN <<k[i]>> ELSE k[i]])

\* get_entity_type_from_key on the text of a key that takes the first
\* token.
get_entity_type_from_key_str_first(progress_entity_key) ==
    LET parts == str_split(progress_entity_key)
    IN parts[1]

\* get_entity_type_from_key on the text of a key: split('.')[-2]
get_entity_type_from_key_str(progress_entity_key) ==
    LET parts == str_split(progress_entity_key)
    IN parts[Len(parts) - 1]

\* determine_if_composite_entity on the text of a key.
determine_if_composite_entity_str(progress_entity_key) ==
    get_entity_type_from_key_str(progress_entity_key)
        \in {<<code>> : code \in COMPOSITE_ENTITIES}

\* generate_parent_id on the text of a key that drops the last token only.
generate_parent_id_str_one_token(text) ==
    LET parts == str_split(text)
    IN str_join(SubSeq(parts, 1, Len(parts) - 1))

\* generate_parent_id on the text of a key:
\* lambda s: '.'.join(s.split('.')[:-2])
generate_parent_id_str(text) ==
    LET parts == str_split(text)
    IN str_join(SubSeq(parts, 1, Len(parts) - 2))

----------------------------------------------------------------------------
(* transforms and the blob of a StudentPropertyEntity.  A blob is None    *)
(* (kind "none": the value of a freshly created entity), the JSON text of *)
(* a dict (kind "json") or text that is no JSON (kind "bad").             *)

EmptyDict == [k \in {} |-> 0]

NoneBlob == [kind |-> "none", dict |-> EmptyDict]

BadBlob == [kind |-> "bad", dict |-> EmptyDict]

\* transforms.dumps(progress_dict)
dumps(progress_dict) == [kind |-> "json", dict |-> progress_dict]

\* transforms.loads(text) in strict mode: the dict, or the exception raised.
loads(text) ==
    IF text.kind = "json" THEN [exc |-> "ok", dict |-> text.dict]
    ELSE IF text.kind = "none" THEN [exc |-> "TypeError", dict |-> EmptyDict]
    ELSE [exc |-> "ValueError", dict |-> EmptyDict]

\* progress_dict[key] = value
DictSet(progress_dict, key, value) ==
    [k \in DOMAIN progress_dict \cup {key} |->
        IF k = key THEN value ELSE progress_dict[k]]

\* progress_dict.get(key)
DictGet(progress_dict, key) ==
    IF key \in DOMAIN progress_dict THEN progress_dict[key] ELSE None

----------------------------------------------------------------------------
(* Reading and writing one key of the in-memory entity.  An in-memory     *)
(* entity m has the blob m.value, the flag m.stamped (updated_on was set  *)
(* by _put_event) and m.exc, the exception that is propagating ("ok" when *)
(* none is); a statement reached while an exception propagates is skipped.*)
(* m.ran lists, in order, the updaters that were run on m and the loads of *)
(* an activity file that they made.                                        *)

Raise(m, exc) == [m EXCEPT !.exc = exc]

\* The calls were made on behalf of m.
Called(m, calls) == [m EXCEPT !.ran = @ \o calls]

\* The exception _get_entity_value raises on m, "ok" when it returns.
_get_entity_value_exc(m) ==
    IF m.value.kind = "none" THEN "ok" ELSE loads(m.value).exc

\* The value _get_entity_value returns when it raises nothing.
_get_entity_value(m, event_key) ==
    IF m.value.kind = "none" THEN None
    ELSE DictGet(loads(m.value).dict, event_key)

\* _set_entity_value that takes every failure to parse for an empty dict.
_set_entity_value_except_all(m, key, value) ==
    IF m.exc # "ok" THEN m
    ELSE LET r == loads(m.value)
             progress_dict == IF r.exc # "ok" THEN EmptyDict ELSE r.dict
         IN [m EXCEPT !.value = dumps(DictSet(progress_dict, key, value))]

\* _set_entity_value that starts from an empty dict instead of the loaded
\* one.
_set_entity_value_fresh_dict(m, key, value) ==
    IF m.exc # "ok" THEN m
    ELSE LET r == loads(m.value)
             progress_dict == EmptyDict
         IN IF r.exc \notin {"ok", "AttributeError", "TypeError"}
            THEN Raise(m, r.exc)
            ELSE [m EXCEPT !.value = dumps(DictSet(progress_dict, key, value))]

_set_entity_value(m, key, value) ==
    IF m.exc # "ok" THEN m
    ELSE LET r == loads(m.value)
             progress_dict ==
                 IF r.exc \in {"AttributeError", "TypeError"}
                 THEN EmptyDict ELSE r.dict
         IN IF r.exc \notin {"ok", "AttributeError", "TypeError"}
            THEN Raise(m, r.exc)
            ELSE [m EXCEPT !.value = dumps(DictSet(progress_dict, key, value))]

\* _inc that assigns the increment instead of adding it.
_inc_assign(m, key, value) ==
    IF m.exc # "ok" THEN m
    ELSE LET r == loads(m.value)
             progress_dict ==
                 IF r.exc \in {"AttributeError", "TypeError"}
                 THEN EmptyDict ELSE r.dict
         IN IF r.exc \notin {"ok", "AttributeError", "TypeError"}
            THEN Raise(m, r.exc)
            ELSE [m EXCEPT !.value = dumps(DictSet(progress_dict, key, value))]

\* _inc that starts an absent key at 1 instead of 0.
_inc_from_one(m, key, value) ==
    IF m.exc # "ok" THEN m
    ELSE LET r == loads(m.value)
             progress_dict ==
                 IF r.exc \in {"AttributeError", "TypeError"}
                 THEN EmptyDict ELSE r.dict
             d0 == IF key \notin DOMAIN progress_dict
                   THEN DictSet(progress_dict, key, 1) ELSE progress_dict
         IN IF r.exc \notin {"ok", "AttributeError", "TypeError"}
            THEN Raise(m, r.exc)
            ELSE [m EXCEPT !.value = dumps(DictSet(d0, key, d0[key] + value))]

\* _inc that starts a new dict when the key is absent.
_inc_new_dict(m, key, value) ==
    IF m.exc # "ok" THEN m
    ELSE LET r == loads(m.value)
             progress_dict ==
                 IF r.exc \in {"AttributeError", "TypeError"}
                 THEN EmptyDict ELSE r.dict
             d0 == IF key \notin DOMAIN progress_dict
                   THEN DictSet(EmptyDict, key, 0) ELSE progress_dict
         IN IF r.exc \notin {"ok", "AttributeError", "TypeError"}
            THEN Raise(m, r.exc)
            ELSE [m EXCEPT !.value = dumps(DictSet(d0, key, d0[key] + value))]

_inc(m, key, value) ==
    IF m.exc # "ok" THEN m
    ELSE LET r == loads(m.value)
             progress_dict ==
                 IF r.exc \in {"AttributeError", "TypeError"}
                 THEN EmptyDict ELSE r.dict
             d0 == IF key \notin DOMAIN progress_dict
                   THEN DictSet(progress_dict, key, 0) ELSE progress_dict
         IN IF r.exc \notin {"ok", "AttributeError", "TypeError"}
            THEN Raise(m, r.exc)
            ELSE [m EXCEPT !.value = dumps(DictSet(d0, key, d0[key] + value))]

get_unit_status(m, unit_id) == _get_entity_value(m, _get_unit_key(unit_id))

get_lesson_status(m, unit_id, lesson_id) ==
    _get_entity_value(m, _get_lesson_key(unit_id, lesson_id))

get_activity_status(m, unit_id, lesson_id) ==
    _get_entity_value(m, _get_activity_key(unit_id, lesson_id))

get_html_status(m, unit_id, lesson_id) ==
    _get_entity_value(m, _get_html_key(unit_id, lesson_id))

is_block_completed(m, unit_id, lesson_id, block_id) ==
    LET value == _get_entity_value(m, _get_block_key(unit_id, lesson_id, block_id))
    IN value # None /\ value > 0

is_component_completed(m, unit_id, lesson_id, cpt_id) ==
    LET value == _get_entity_value(
                     m, _get_component_key(unit_id, lesson_id, cpt_id))
    IN value # None /\ value > 0

is_assessment_completed(m, assessment_id) ==
    LET value == _get_entity_value(m, _get_assessment_key(assessment_id))
    IN value # None /\ value > 0

----------------------------------------------------------------------------
(* The updaters of the composite entities *)

\* _update_unit that takes the unit for completed when some lesson of it is.
_update_unit_some_lesson(m, event_key) ==
    LET unit_id == event_key[2]
        m1 == _set_entity_value(m, event_key, IN_PROGRESS_STATE)
    IN IF m.exc # "ok" THEN m
       ELSE IF Len(event_key) # 2 THEN Raise(m, "AssertionError")
       ELSE IF _get_entity_value_exc(m) # "ok"
            THEN Raise(m, _get_entity_value_exc(m))
       ELSE IF _get_entity_value(m, event_key) = COMPLETED_STATE THEN m
       ELSE IF m1.exc # "ok" THEN m1
       ELSE IF \A lesson \in get_lessons(unit_id) :
                   get_lesson_status(m1, unit_id, lesson.lesson_id)
                       # COMPLETED_STATE
            THEN m1
       ELSE _set_entity_value(m1, event_key, COMPLETED_STATE)

\* _update_unit that never writes COMPLETED.
_update_unit_no_complete(m, event_key) ==
    LET unit_id == event_key[2]
        m1 == _set_entity_value(m, event_key, IN_PROGRESS_STATE)
    IN IF m.exc # "ok" THEN m
       ELSE IF Len(event_key) # 2 THEN Raise(m, "AssertionError")
       ELSE IF _get_entity_value_exc(m) # "ok"
            THEN Raise(m, _get_entity_value_exc(m))
       ELSE IF _get_entity_value(m, event_key) = COMPLETED_STATE THEN m
       ELSE m1

\* _update_unit that writes COMPLETED without asking for the lessons.
_update_unit_always_complete(m, event_key) ==
    LET unit_id == event_key[2]
        m1 == _set_entity_value(m, event_key, IN_PROGRESS_STATE)
    IN IF m.exc # "ok" THEN m
       ELSE IF Len(event_key) # 2 THEN Raise(m, "AssertionError")
       ELSE IF _get_entity_value_exc(m) # "ok"
            THEN Raise(m, _get_entity_value_exc(m))
       ELSE IF _get_entity_value(m, event_key) = COMPLETED_STATE THEN m
       ELSE IF m1.exc # "ok" THEN m1
       ELSE _set_entity_value(m1, event_key, COMPLETED_STATE)

\* _update_unit that derives the state again when the unit is COMPLETED.
_update_unit_no_return(m, event_key) ==
    LET unit_id == event_key[2]
        m1 == _set_entity_value(m, event_key, IN_PROGRESS_STATE)
    IN IF m.exc # "ok" THEN m
       ELSE IF Len(event_key) # 2 THEN Raise(m, "AssertionError")
       ELSE IF _get_entity_value_exc(m) # "ok"
            THEN Raise(m, _get_entity_value_exc(m))
       ELSE IF m1.exc # "ok" THEN m1
       ELSE IF \E lesson \in get_lessons(unit_id) :
                   get_lesson_status(m1, unit_id, lesson.lesson_id)
                       # COMPLETED_STATE
            THEN m1
       ELSE _set_entity_value(m1, event_key, COMPLETED_STATE)

_update_unit(m, event_key) ==
    LET unit_id == event_key[2]
        m1 == _set_entity_value(m, event_key, IN_PROGRESS_STATE)
    IN IF m.exc # "ok" THEN m
       ELSE IF Len(event_key) # 2 THEN Raise(m, "AssertionError")
       ELSE IF _get_entity_value_exc(m) # "ok"
            THEN Raise(m, _get_entity_value_exc(m))
       ELSE IF _get_entity_value(m, event_key) = COMPLETED_STATE THEN m
       ELSE IF m1.exc # "ok" THEN m1
       ELSE IF \E lesson \in get_lessons(unit_id) :
                   get_lesson_status(m1, unit_id, lesson.lesson_id)
                       # COMPLETED_STATE
            THEN m1
       ELSE _set_entity_value(m1, event_key, COMPLETED_STATE)

\* _update_lesson that does not ask for the html status.
_update_lesson_no_html(m, event_key) ==
    LET unit_id == event_key[2]
        lesson_id == event_key[4]
        m1 == _set_entity_value(m, event_key, IN_PROGRESS_STATE)
    IN IF m.exc # "ok" THEN m
       ELSE IF Len(event_key) # 4 THEN Raise(m, "AssertionError")
       ELSE IF _get_entity_value_exc(m) # "ok"
            THEN Raise(m, _get_entity_value_exc(m))
       ELSE IF _get_entity_value(m, event_key) = COMPLETED_STATE THEN m
       ELSE IF m1.exc # "ok" THEN m1
       ELSE IF \E lesson \in get_lessons(unit_id) :
                   /\ lesson.lesson_id = lesson_id
                   /\ lesson.activity
                   /\ get_activity_status(m1, unit_id, lesson_id)
                          # COMPLETED_STATE
            THEN m1
       ELSE _set_entity_value(m1, event_key, COMPLETED_STATE)

\* _update_lesson that does not ask for the activity status.
_update_lesson_no_activity(m, event_key) ==
    LET unit_id == event_key[2]
        lesson_id == event_key[4]
        m1 == _set_entity_value(m, event_key, IN_PROGRESS_STATE)
    IN IF m.exc # "ok" THEN m
       ELSE IF Len(event_key) # 4 THEN Raise(m, "AssertionError")
       ELSE IF _get_entity_value_exc(m) # "ok"
            THEN Raise(m, _get_entity_value_exc(m))
       ELSE IF _get_entity_value(m, event_key) = COMPLETED_STATE THEN m
       ELSE IF m1.exc # "ok" THEN m1
       ELSE IF \E lesson \in get_lessons(unit_id) :
                   /\ lesson.lesson_id = lesson_id
                   /\ get_html_status(m1, unit_id, lesson_id)
                          # COMPLETED_STATE
            THEN m1
       ELSE _set_entity_value(m1, event_key, COMPLETED_STATE)

\* _update_lesson that writes IN_PROGRESS only once a part of the lesson is
\* completed.
_update_lesson_no_touch(m, event_key) ==
    LET unit_id == event_key[2]
        lesson_id == event_key[4]
        m1 == IF \/ get_activity_status(m, unit_id, lesson_id)
                        = COMPLETED_STATE
                 \/ get_html_status(m, unit_id, lesson_id) = COMPLETED_STATE
              THEN _set_entity_value(m, event_key, IN_PROGRESS_STATE)
              ELSE m
    IN IF m.exc # "ok" THEN m
       ELSE IF Len(event_key) # 4 THEN Raise(m, "AssertionError")
       ELSE IF _get_entity_value_exc(m) # "ok"
            THEN Raise(m, _get_entity_value_exc(m))
       ELSE IF _get_entity_value(m, event_key) = COMPLETED_STATE THEN m
       ELSE IF m1.exc # "ok" THEN m1
       ELSE IF \E lesson \in get_lessons(unit_id) :
                   /\ lesson.lesson_id = lesson_id
                   /\ \/ /\ lesson.activity
                         /\ get_activity_status(m1, unit_id, lesson_id)
                                # COMPLETED_STATE
                      \/ get_html_status(m1, unit_id, lesson_id)
                             # COMPLETED_STATE
            THEN m1
       ELSE _set_entity_value(m1, event_key, COMPLETED_STATE)

_update_lesson(m, event_key) ==
    LET unit_id == event_key[2]
        lesson_id == event_key[4]
        m1 == _set_entity_value(m, event_key, IN_PROGRESS_STATE)
    IN IF m.exc # "ok" THEN m
       ELSE IF Len(event_key) # 4 THEN Raise(m, "AssertionError")
       ELSE IF _get_entity_value_exc(m) # "ok"
            THEN Raise(m, _get_entity_value_exc(m))
       ELSE IF _get_entity_value(m, event_key) = COMPLETED_STATE THEN m
       ELSE IF m1.exc # "ok" THEN m1
       ELSE IF \E lesson \in get_lessons(unit_id) :
                   /\ lesson.lesson_id = lesson_id
                   /\ \/ /\ lesson.activity
                         /\ get_activity_status(m1, unit_id, lesson_id)
                                # COMPLETED_STATE
                      \/ get_html_status(m1, unit_id, lesson_id)
                             # COMPLETED_STATE
            THEN m1
       ELSE _set_entity_value(m1, event_key, COMPLETED_STATE)

\* _update_activity without the early return for a completed activity.
_update_activity_no_return(m, event_key) ==
    LET unit_id == event_key[2]
        lesson_id == event_key[4]
        m1 == _set_entity_value(m, event_key, IN_PROGRESS_STATE)
    IN IF m.exc # "ok" THEN m
       ELSE IF Len(event_key) # 6 THEN Raise(m, "AssertionError")
       ELSE IF _get_entity_value_exc(m) # "ok"
            THEN Raise(m, _get_entity_value_exc(m))
       ELSE IF m1.exc # "ok" THEN m1
       ELSE IF _get_valid_blocks_data_exc(unit_id, lesson_id, 2) # "ok"
            THEN Raise(m1, _get_valid_blocks_data_exc(unit_id, lesson_id, 2))
       ELSE IF \E block_id \in get_valid_block_ids(unit_id, lesson_id) :
                   ~is_block_completed(m1, unit_id, lesson_id, block_id)
            THEN m1
       ELSE _set_entity_value(m1, event_key, COMPLETED_STATE)

\* _update_activity that takes a failed enumeration of the blocks for an
\* activity that is not completed yet.
_update_activity_masks_lookup(m, event_key) ==
    LET unit_id == event_key[2]
        lesson_id == event_key[4]
        m1 == _set_entity_value(m, event_key, IN_PROGRESS_STATE)
    IN IF m.exc # "ok" THEN m
       ELSE IF Len(event_key) # 6 THEN Raise(m, "AssertionError")
       ELSE IF _get_entity_value_exc(m) # "ok"
            THEN Raise(m, _get_entity_value_exc(m))
       ELSE IF _get_entity_value(m, event_key) = COMPLETED_STATE THEN m
       ELSE IF m1.exc # "ok" THEN m1
       ELSE IF _get_valid_blocks_data_exc(unit_id, lesson_id, 2) # "ok"
            THEN m1
       ELSE IF \E block_id \in get_valid_block_ids(unit_id, lesson_id) :
                   ~is_block_completed(m1, unit_id, lesson_id, block_id)
            THEN m1
       ELSE _set_entity_value(m1, event_key, COMPLETED_STATE)

\* _update_activity that takes the activity for completed when some block of
\* it is.
_update_activity_some_block(m, event_key) ==
    LET unit_id == event_key[2]
        lesson_id == event_key[4]
        m1 == _set_entity_value(m, event_key, IN_PROGRESS_STATE)
        m2 == Called(m1, _get_valid_blocks_data_calls(unit_id, lesson_id))
    IN IF m.exc # "ok" THEN m
       ELSE IF Len(event_key) # 6 THEN Raise(m, "AssertionError")
       ELSE IF _get_entity_value_exc(m) # "ok"
            THEN Raise(m, _get_entity_value_exc(m))
       ELSE IF _get_entity_value(m, event_key) = COMPLETED_STATE THEN m
       ELSE IF m1.exc # "ok" THEN m1
       ELSE IF _get_valid_blocks_data_exc(unit_id, lesson_id, 2) # "ok"
            THEN Raise(m2, _get_valid_blocks_data_exc(unit_id, lesson_id, 2))
       ELSE IF \A block_id \in get_valid_block_ids(unit_id, lesson_id) :
                   ~is_block_completed(m2, unit_id, lesson_id, block_id)
            THEN m2
       ELSE _set_entity_value(m2, event_key, COMPLETED_STATE)

\* _update_activity that enumerates the valid blocks before it looks at the
\* value of the key.
_update_activity_load_first(m, event_key) ==
    LET unit_id == event_key[2]
        lesson_id == event_key[4]
        m0 == Called(m, _get_valid_blocks_data_calls(unit_id, lesson_id))
        m2 == _set_entity_value(m0, event_key, IN_PROGRESS_STATE)
    IN IF m.exc # "ok" THEN m
       ELSE IF Len(event_key) # 6 THEN Raise(m, "AssertionError")
       ELSE IF _get_valid_blocks_data_exc(unit_id, lesson_id, 2) # "ok"
            THEN Raise(m0, _get_valid_blocks_data_exc(unit_id, lesson_id, 2))
       ELSE IF _get_entity_value_exc(m) # "ok"
            THEN Raise(m0, _get_entity_value_exc(m))
       ELSE IF _get_entity_value(m, event_key) = COMPLETED_STATE THEN m0
       ELSE IF m2.exc # "ok" THEN m2
       ELSE IF \E block_id \in get_valid_block_ids(unit_id, lesson_id) :
                   ~is_block_completed(m2, unit_id, lesson_id, block_id)
            THEN m2
       ELSE _set_entity_value(m2, event_key, COMPLETED_STATE)

_update_activity(m, event_key) ==
    LET unit_id == event_key[2]
        lesson_id == event_key[4]
        m1 == _set_entity_value(m, event_key, IN_PROGRESS_STATE)
        m2 == Called(m1, _get_valid_blocks_data_calls(unit_id, lesson_id))
    IN IF m.exc # "ok" THEN m
       ELSE IF Len(event_key) # 6 THEN Raise(m, "AssertionError")
       ELSE IF _get_entity_value_exc(m) # "ok"
            THEN Raise(m, _get_entity_value_exc(m))
       ELSE IF _get_entity_value(m, event_key) = COMPLETED_STATE THEN m
       ELSE IF m1.exc # "ok" THEN m1
       ELSE IF _get_valid_blocks_data_exc(unit_id, lesson_id, 2) # "ok"
            THEN Raise(m2, _get_valid_blocks_data_exc(unit_id, lesson_id, 2))
       ELSE IF \E block_id \in get_valid_block_ids(unit_id, lesson_id) :
                   ~is_block_completed(m2, unit_id, lesson_id, block_id)
            THEN m2
       ELSE _set_entity_value(m2, event_key, COMPLETED_STATE)

_update_html(m, event_key) ==
    LET unit_id == event_key[2]
        lesson_id == event_key[4]
        m1 == _set_entity_value(m, event_key, IN_PROGRESS_STATE)
    IN IF m.exc # "ok" THEN m
       ELSE IF Len(event_key) # 6 THEN Raise(m, "AssertionError")
       ELSE IF _get_entity_value_exc(m) # "ok"
            THEN Raise(m, _get_entity_value_exc(m))
       ELSE IF _get_entity_value(m, event_key) = COMPLETED_STATE THEN m
       ELSE IF m1.exc # "ok" THEN m1
       ELSE IF \E cpt_id \in get_valid_component_ids(unit_id, lesson_id) :
                   ~is_component_completed(m1, unit_id, lesson_id, cpt_id)
            THEN m1
       ELSE _set_entity_value(m1, event_key, COMPLETED_STATE)

\* UPDATER_MAPPING without the entry for 'html'.
UPDATER_ENTITIES_no_html == {"activity", "lesson", "unit"}

\* The entities that have an updater.
UPDATER_ENTITIES == {"activity", "html", "lesson", "unit"}

\* UPDATER_MAPPING[event_entity](self, progress, event_key)
UPDATER_MAPPING(event_entity, m, event_key) ==
    CASE event_entity = "activity" ->
             _update_activity(Called(m, <<"_update_activity">>), event_key)
      [] event_entity = "html" ->
             _update_html(Called(m, <<"_update_html">>), event_key)
      [] event_entity = "lesson" ->
             _update_lesson(Called(m, <<"_update_lesson">>), event_key)
      [] event_entity = "unit" ->
             _update_unit(Called(m, <<"_update_unit">>), event_key)

\* DERIVED_EVENTS without the entry that derives the unit from the lesson.
DERIVED_EVENTS_no_unit ==
    [block |-> "activity", activity |-> "lesson",
     component |-> "html", html |-> "lesson"]

\* DERIVED_EVENTS without the entry that derives the lesson from the html.
DERIVED_EVENTS_no_html_parent ==
    [block |-> "activity", activity |-> "lesson", lesson |-> "unit",
     component |-> "html"]

\* DERIVED_EVENTS with an entry that derives the unit from the assessment.
DERIVED_EVENTS_assessment_parent ==
    [block |-> "activity", activity |-> "lesson", lesson |-> "unit",
     component |-> "html", html |-> "lesson", assessment |-> "unit"]

\* The entity derived from each event entity; every tuple of the source has
\* one element, and every generate_parent_id is the same function.
DERIVED_EVENTS ==
    [block |-> "activity", activity |-> "lesson", lesson |-> "unit",
     component |-> "html", html |-> "lesson"]

\* _update_event that runs the updater of the event's own entity also for a
\* direct update.
RECURSIVE _update_event_no_direct(_, _, _, _)
_update_event_no_direct(m, event_entity, event_key, direct_update) ==
    LET m1 == IF event_entity \notin UPDATER_ENTITIES
              THEN _inc(m, event_key, 1)
              ELSE UPDATER_MAPPING(event_entity, m, event_key)
    IN IF m1.exc # "ok" THEN m1
       ELSE IF event_entity \in DOMAIN DERIVED_EVENTS
            THEN _update_event_no_direct(m1, DERIVED_EVENTS[event_entity],
                                         generate_parent_id(event_key), FALSE)
       ELSE m1

\* _update_event that ends the cascade at an entity whose key was COMPLETED
\* before its updater ran.
RECURSIVE _update_event_stops_at_completed(_, _, _, _)
_update_event_stops_at_completed(m, event_entity, event_key, direct_update) ==
    LET m1 == IF direct_update \/ event_entity \notin UPDATER_ENTITIES
              THEN IF event_entity \in UPDATER_ENTITIES
                   THEN _set_entity_value(m, event_key, COMPLETED_STATE)
                   ELSE _inc(m, event_key, 1)
              ELSE UPDATER_MAPPING(event_entity, m, event_key)
    IN IF m1.exc # "ok" THEN m1
       ELSE IF /\ ~direct_update
               /\ event_entity \in UPDATER_ENTITIES
               /\ _get_entity_value(m, event_key) = COMPLETED_STATE
            THEN m1
       ELSE IF event_entity \in DOMAIN DERIVED_EVENTS
            THEN _update_event_stops_at_completed(
                     m1, DERIVED_EVENTS[event_entity],
                     generate_parent_id(event_key), FALSE)
       ELSE m1

RECURSIVE _update_event(_, _, _, _)
_update_event(m, event_entity, event_key, direct_update) ==
    LET m1 == IF direct_update \/ event_entity \notin UPDATER_ENTITIES
              THEN IF event_entity \in UPDATER_ENTITIES
                   THEN _set_entity_value(m, event_key, COMPLETED_STATE)
                   ELSE _inc(m, event_key, 1)
              ELSE UPDATER_MAPPING(event_entity, m, event_key)
    IN IF m1.exc # "ok" THEN m1
       ELSE IF event_entity \in DOMAIN DERIVED_EVENTS
            THEN _update_event(m1, DERIVED_EVENTS[event_entity],
                               generate_parent_id(event_key), FALSE)
       ELSE m1

----------------------------------------------------------------------------
(* Students and the StudentPropertyEntity store *)

Students == {"s1", "t1"}

\* student.is_transient
is_transient(student) == student = "t1"

\* No entity is stored for the student.
NoEntity == [exists |-> FALSE, value |-> NoneBlob, stamped |-> FALSE]

\* StudentPropertyEntity.create(student, property_name): no value yet.
StudentPropertyEntity_create == [exists |-> TRUE, value |-> NoneBlob, stamped |-> FALSE]

\* progress.put(): the entity replaces the stored one.
Put(st, student, entity) == [st EXCEPT ![student] = entity]

\* get_or_create_progress that creates and puts an entity in every case.
get_or_create_progress_always(st, student) ==
    [store |-> Put(st, student, StudentPropertyEntity_create),
     progress |-> StudentPropertyEntity_create, nputs |-> 1]

\* get_or_create_progress that creates an entity for every student that
\* has none.
get_or_create_progress_every_student(st, student) ==
    IF st[student].exists
    THEN [store |-> st, progress |-> st[student], nputs |-> 0]
    ELSE [store |-> [s \in DOMAIN st |->
                        IF st[s].exists THEN st[s]
                        ELSE StudentPropertyEntity_create],
          progress |-> StudentPropertyEntity_create, nputs |-> 1]

\* get_or_create_progress: the stored entity, or a new one that is put.
get_or_create_progress(st, student) ==
    IF st[student].exists
    THEN [store |-> st, progress |-> st[student], nputs |-> 0]
    ELSE [store |-> Put(st, student, StudentPropertyEntity_create),
          progress |-> StudentPropertyEntity_create, nputs |-> 1]

\* The in-memory entity that a handler starts from.
InMemory(entity) ==
    [value |-> entity.value, stamped |-> entity.stamped, exc |-> "ok",
     ran |-> <<>>]

\* A handler that raises before it touches the store.
Raises(st, event_entity, exc) ==
    [store |-> st, outcome |-> "raised", entity |-> event_entity, nputs |-> 0,
     exc |-> exc]

\* A handler that returns before it touches the store.
Returns(st, outcome) ==
    [store |-> st, outcome |-> outcome, entity |-> "none", nputs |-> 0,
     exc |-> "ok"]

----------------------------------------------------------------------------
(* The record operations.  Each yields the store it leaves, how it ended  *)
(* (outcome), the number of put() calls it made and the exception that    *)
(* reached the caller.                                                     *)

\* _put_event without the check for a transient student.
_put_event_any_student(st, student, event_entity, event_key) ==
    IF event_entity \notin DOMAIN EVENT_CODE_MAPPING
    THEN Returns(st, "transient")
    ELSE LET g == get_or_create_progress(st, student)
             m == _update_event(InMemory(g.progress), event_entity,
                                event_key, TRUE)
         IN IF m.exc # "ok"
            THEN [store |-> g.store, outcome |-> "raised",
                  entity |-> event_entity, nputs |-> g.nputs, exc |-> m.exc]
            ELSE [store |-> Put(g.store, student,
                                [exists |-> TRUE, value |-> m.value,
                                 stamped |-> TRUE]),
                  outcome |-> "recorded", entity |-> event_entity,
                  nputs |-> g.nputs + 1, exc |-> "ok"]

\* _put_event without the final progress.put().
_put_event_no_put(st, student, event_entity, event_key) ==
    IF is_transient(student) \/ event_entity \notin DOMAIN EVENT_CODE_MAPPING
    THEN Returns(st, "transient")
    ELSE LET g == get_or_create_progress(st, student)
             m == _update_event(InMemory(g.progress), event_entity,
                                event_key, TRUE)
         IN IF m.exc # "ok"
            THEN [store |-> g.store, outcome |-> "raised",
                  entity |-> event_entity, nputs |-> g.nputs, exc |-> m.exc]
            ELSE [store |-> g.store,
                  outcome |-> "recorded", entity |-> event_entity,
                  nputs |-> g.nputs, exc |-> "ok"]

_put_event(st, student, event_entity, event_key) ==
    IF is_transient(student) \/ event_entity \notin DOMAIN EVENT_CODE_MAPPING
    THEN Returns(st, "transient")
    ELSE LET g == get_or_create_progress(st, student)
             m == _update_event(InMemory(g.progress), event_entity,
                                event_key, TRUE)
         IN IF m.exc # "ok"
            THEN [store |-> g.store, outcome |-> "raised",
                  entity |-> event_entity, nputs |-> g.nputs, exc |-> m.exc]
            ELSE [store |-> Put(g.store, student,
                                [exists |-> TRUE, value |-> m.value,
                                 stamped |-> TRUE]),
                  outcome |-> "recorded", entity |-> event_entity,
                  nputs |-> g.nputs + 1, exc |-> "ok"]

put_activity_completed(st, student, unit_id, lesson_id) ==
    IF ~is_valid_unit_lesson_id(unit_id, lesson_id)
    THEN Returns(st, "invalid_unit_lesson")
    ELSE _put_event(st, student, "activity",
                    _get_activity_key(unit_id, lesson_id))

put_html_completed(st, student, unit_id, lesson_id) ==
    IF ~is_valid_unit_lesson_id(unit_id, lesson_id)
    THEN Returns(st, "invalid_unit_lesson")
    ELSE _put_event(st, student, "html", _get_html_key(unit_id, lesson_id))

\* put_block_completed without the check of the block id.
put_block_completed_any_block(st, student, unit_id, lesson_id, block_id) ==
    IF ~is_valid_unit_lesson_id(unit_id, lesson_id)
    THEN Returns(st, "invalid_unit_lesson")
    ELSE _put_event(st, student, "block",
                    _get_block_key(unit_id, lesson_id, block_id))

put_block_completed(st, student, unit_id, lesson_id, block_id) ==
    IF ~is_valid_unit_lesson_id(unit_id, lesson_id)
    THEN Returns(st, "invalid_unit_lesson")
    ELSE IF _get_valid_blocks_data_exc(unit_id, lesson_id, 1) # "ok"
    THEN Raises(st, "block", _get_valid_blocks_data_exc(unit_id, lesson_id, 1))
    ELSE IF block_id \notin get_valid_block_ids(unit_id, lesson_id)
    THEN Returns(st, "invalid_block")
    ELSE _put_event(st, student, "block",
                    _get_block_key(unit_id, lesson_id, block_id))

\* The loads of an activity file and the updaters that one
\* put_block_completed calls, in order, with "_update_event" where _put_event
\* starts the cascade.
put_block_completed_calls(st, student, unit_id, lesson_id, block_id) ==
    IF ~is_valid_unit_lesson_id(unit_id, lesson_id)
    THEN <<>>
    ELSE IF \/ _get_valid_blocks_data_exc(unit_id, lesson_id, 1) # "ok"
            \/ block_id \notin get_valid_block_ids(unit_id, lesson_id)
            \/ is_transient(student)
    THEN _get_valid_blocks_data_calls(unit_id, lesson_id)
    ELSE _get_valid_blocks_data_calls(unit_id, lesson_id)
         \o <<"_update_event">>
         \o _update_event(
                InMemory(get_or_create_progress(st, student).progress),
                "block", _get_block_key(unit_id, lesson_id, block_id),
                TRUE).ran

put_component_completed(st, student, unit_id, lesson_id, cpt_id) ==
    IF ~is_valid_unit_lesson_id(unit_id, lesson_id)
    THEN Returns(st, "invalid_unit_lesson")
    ELSE IF cpt_id \notin get_valid_component_ids(unit_id, lesson_id)
    THEN Returns(st, "invalid_component")
    ELSE _put_event(st, student, "component",
                    _get_component_key(unit_id, lesson_id, cpt_id))

put_assessment_completed(st, student, assessment_id) ==
    IF ~is_valid_assessment_id(assessment_id)
    THEN Returns(st, "invalid_assessment")
    ELSE _put_event(st, student, "assessment",
                    _get_assessment_key(assessment_id))

\* put_activity_accessed without the check for valid block ids.
put_activity_accessed_always(st, student, unit_id, lesson_id) ==
    IF _get_valid_blocks_data_exc(unit_id, lesson_id, 1) # "ok"
    THEN Raises(st, "activity",
                _get_valid_blocks_data_exc(unit_id, lesson_id, 1))
    ELSE put_activity_completed(st, student, unit_id, lesson_id)

put_activity_accessed(st, student, unit_id, lesson_id) ==
    IF _get_valid_blocks_data_exc(unit_id, lesson_id, 1) # "ok"
    THEN Raises(st, "activity",
                _get_valid_blocks_data_exc(unit_id, lesson_id, 1))
    ELSE IF get_valid_block_ids(unit_id, lesson_id) = {}
    THEN put_activity_completed(st, student, unit_id, lesson_id)
    ELSE Returns(st, "not_marked")

put_html_accessed(st, student, unit_id, lesson_id) ==
    IF get_valid_component_ids(unit_id, lesson_id) = {}
    THEN put_html_completed(st, student, unit_id, lesson_id)
    ELSE Returns(st, "not_marked")

----------------------------------------------------------------------------
(* The read operations.  ret is the value returned when nothing is raised. *)

\* get_unit_progress that returns the stored value without "or 0".
get_unit_progress_no_default(st, student) ==
    IF is_transient(student)
    THEN [store |-> st, outcome |-> "transient_read", entity |-> "none",
          nputs |-> 0, exc |-> "ok", ret |-> EmptyDict]
    ELSE LET g == get_or_create_progress(st, student)
             m == InMemory(g.progress)
             units == {u \in get_units : u.type \in {"A", "U"}}
             exc == IF units = {} THEN "ok" ELSE _get_entity_value_exc(m)
             value(unit_id) == get_unit_status(m, unit_id)
         IN [store |-> g.store,
             outcome |-> IF exc = "ok" THEN "returned" ELSE "read_raised",
             entity |-> "none", nputs |-> g.nputs, exc |-> exc,
             ret |-> [id \in {u.unit_id : u \in units} |->
                        IF \E u \in units : u.unit_id = id /\ u.type = "A"
                        THEN is_assessment_completed(m, id)
                        ELSE value(id)]]

get_unit_progress(st, student) ==
    IF is_transient(student)
    THEN [store |-> st, outcome |-> "transient_read", entity |-> "none",
          nputs |-> 0, exc |-> "ok", ret |-> EmptyDict]
    ELSE LET g == get_or_create_progress(st, student)
             m == InMemory(g.progress)
             units == {u \in get_units : u.type \in {"A", "U"}}
             exc == IF units = {} THEN "ok" ELSE _get_entity_value_exc(m)
             value(unit_id) == get_unit_status(m, unit_id)
         IN [store |-> g.store,
             outcome |-> IF exc = "ok" THEN "returned" ELSE "read_raised",
             entity |-> "none", nputs |-> g.nputs, exc |-> exc,
             ret |-> [id \in {u.unit_id : u \in units} |->
                        IF \E u \in units : u.unit_id = id /\ u.type = "A"
                        THEN is_assessment_completed(m, id)
                        ELSE IF value(id) \in {None, 0} THEN 0
                             ELSE value(id)]]

get_lesson_progress(st, student, unit_id) ==
    IF is_transient(student)
    THEN [store |-> st, outcome |-> "transient_read", entity |-> "none",
          nputs |-> 0, exc |-> "ok", ret |-> EmptyDict]
    ELSE LET lessons == get_lessons(unit_id)
             g == get_or_create_progress(st, student)
             m == InMemory(g.progress)
             exc == IF lessons = {} THEN "ok" ELSE _get_entity_value_exc(m)
             or0(value) == IF value \in {None, 0} THEN 0 ELSE value
         IN [store |-> g.store,
             outcome |-> IF exc = "ok" THEN "returned" ELSE "read_raised",
             entity |-> "none", nputs |-> g.nputs, exc |-> exc,
             ret |-> [id \in {l.lesson_id : l \in lessons} |->
                        [html |-> or0(get_html_status(m, unit_id, id)),
                         activity |->
                             or0(get_activity_status(m, unit_id, id))]]]

\* Returns True for a completed component and 0 otherwise (False or 0).
get_component_progress(st, student, unit_id, lesson_id, cpt_id) ==
    IF is_transient(student)
    THEN [store |-> st, outcome |-> "transient_read", entity |-> "none",
          nputs |-> 0, exc |-> "ok", ret |-> 0]
    ELSE LET g == get_or_create_progress(st, student)
             m == InMemory(g.progress)
             exc == _get_entity_value_exc(m)
         IN [store |-> g.store,
             outcome |-> IF exc = "ok" THEN "returned" ELSE "read_raised",
             entity |-> "none", nputs |-> g.nputs, exc |-> exc,
             ret |-> IF is_component_completed(m, unit_id, lesson_id, cpt_id)
                     THEN TRUE ELSE 0]

----------------------------------------------------------------------------------------------------------------------------------------
(* The state machine: one action per public operation of the tracker.     *)
(* The ids a caller passes are drawn from sets that hold valid and        *)
(* invalid ones.                                                           *)

UnitIdInputs == {"1", "2", "9"}
UnitLessonInputs == {<<"1", "1">>, <<"1", "2">>, <<"2", "3">>, <<"9", "1">>}
BlockIdInputs == {"0", "1"}
ComponentIdInputs == {"c1", "zz"}
AssessmentIdInputs == {"Pre", "1"}

\* The dict of a stored entity (empty when there is none or no value yet).
DictOf(entity) ==
    IF entity.value.kind = "json" THEN entity.value.dict ELSE EmptyDict

\* No leaf counter is driven beyond MaxCount.
CountersWithin(st) ==
    \A s \in Students :
        LET d == DictOf(st[s])
        IN \A k \in DOMAIN d :
               IF determine_if_composite_entity(k) THEN TRUE
               ELSE d[k] <= MaxCount

\* An operation ended as its result r says.
Done(r) ==
    /\ CountersWithin(r.store)
    /\ store' = r.store
    /\ last' = [outcome |-> r.outcome, entity |-> r.entity, nputs |-> r.nputs]
    /\ UNCHANGED <<course, fs, procs, started, codec, agg, json, questions>>

PutActivityCompleted(student, unit_id, lesson_id) ==
    Done(put_activity_completed(store, student, unit_id, lesson_id))

PutHtmlCompleted(student, unit_id, lesson_id) ==
    Done(put_html_completed(store, student, unit_id, lesson_id))

PutBlockCompleted(student, unit_id, lesson_id, block_id) ==
    Done(put_block_completed(store, student, unit_id, lesson_id, block_id))

PutComponentCompleted(student, unit_id, lesson_id, cpt_id) ==
    Done(put_component_completed(store, student, unit_id, lesson_id, cpt_id))

PutAssessmentCompleted(student, assessment_id) ==
    Done(put_assessment_completed(store, student, assessment_id))

PutActivityAccessed(student, unit_id, lesson_id) ==
    Done(put_activity_accessed(store, student, unit_id, lesson_id))

PutHtmlAccessed(student, unit_id, lesson_id) ==
    Done(put_html_accessed(store, student, unit_id, lesson_id))

GetUnitProgress(student) ==
    Done(get_unit_progress(store, student))

GetLessonProgress(student, unit_id) ==
    Done(get_lesson_progress(store, student, unit_id))

GetComponentProgress(student, unit_id, lesson_id, cpt_id) ==
    Done(get_component_progress(store, student, unit_id, lesson_id, cpt_id))

\* The requests that may run _put_event at the same time, and a request
\* that is not running.
Procs == {"p1", "p2"}

NoRequest ==
    [pc |-> "idle", student |-> "none", event_entity |-> "none",
     event_key |-> <<>>, progress |-> NoEntity]

\* ProgressAggregator.__init__: no tallies, and nothing visited.
NoAgg == [progress_data |-> EmptyDict, visited |-> <<>>, exc |-> "ok"]

\* No text has been handed to transforms.loads.
NoJson == [text |-> <<>>, strict |-> TRUE,
           result |-> [exc |-> "none", ret |-> "none"]]

\* The key codec at rest.
NoCodec ==
    [unit_id |-> <<>>, lesson_id |-> <<>>, item_id |-> <<>>,
     entity |-> "none", key |-> <<>>, parents |-> 0]

----------------------------------------------------------------------------
(* ComputeQuestionStats.MultipleChoiceQuestionAggregator.  A summarized    *)
(* question is a dict: its keys, and under 'id', 'score' and 'answers' an  *)
(* id, a value that is a number or not, and a value that is a list or     *)
(* not, of items that are ints or not.  dict_to_update maps the id of a    *)
(* question to its statistics.                                             *)

\* The statistics of the questions before any event: one question of two
\* choices, as get_id_to_questions_dict builds it.
NoQuestions ==
    [dict |-> [id \in {"q1"} |->
                  [score |-> 0, num_attempts |-> 0, answer_counts |-> <<0, 0>>]],
     appended |-> 0, outcome |-> "none", exc |-> "ok"]

\* max(summarized_question['answers']) of a list of ints that is not empty.
RECURSIVE max(_)
max(items) ==
    IF Len(items) = 1 THEN items[1].val
    ELSE LET rest == max(Tail(items))
         IN IF items[1].val > rest THEN items[1].val ELSE rest

\* for choice_index in answers: q_dict['answer_counts'][choice_index] += 1.
\* A list of n elements takes the indices -n .. n-1, a negative one counted
\* from the end, and raises IndexError for any other; the increments made
\* before stay.
RECURSIVE count_answers(_, _)
count_answers(answer_counts, items) ==
    IF items = <<>> THEN [answer_counts |-> answer_counts, exc |-> "ok"]
    ELSE LET choice_index == Head(items).val
             n == Len(answer_counts)
             place == IF choice_index >= 0 THEN choice_index + 1
                      ELSE n + choice_index + 1
         IN IF place < 1 \/ place > n
            THEN [answer_counts |-> answer_counts, exc |-> "IndexError"]
            ELSE count_answers([answer_counts EXCEPT ![place] = @ + 1],
                               Tail(items))

\* _append_data(summarized_question, dict_to_update): the dict it leaves,
\* whether it returned before the update ("rejected"), made it ("accepted")
\* or raised ("raised"), and the exception ("ok" when none).
_append_data(summarized_question, dict_to_update) ==
    LET answers == summarized_question.answers
        id == summarized_question.id
        rejected == [dict |-> dict_to_update, outcome |-> "rejected",
                     exc |-> "ok"]
        q_dict == dict_to_update[id]
        counted == count_answers(q_dict.answer_counts, answers.items)
        updated == [q_dict EXCEPT
                       !.score = @ + summarized_question.score.val,
                       !.num_attempts = @ + 1,
                       !.answer_counts = counted.answer_counts]
    IN IF summarized_question.keys # {"id", "score", "answers"}
       THEN rejected
       ELSE IF ~summarized_question.score.number THEN rejected
       ELSE IF ~answers.list THEN rejected
       ELSE IF \E i \in 1..Len(answers.items) : ~answers.items[i].int
            THEN rejected
       ELSE IF id \notin DOMAIN dict_to_update THEN rejected
       ELSE IF answers.items = <<>>
            THEN [dict |-> dict_to_update, outcome |-> "raised",
                  exc |-> "ValueError"]
       ELSE IF max(answers.items) >= Len(q_dict.answer_counts) THEN rejected
       ELSE [dict |-> [dict_to_update EXCEPT ![id] = updated],
             outcome |-> IF counted.exc = "ok" THEN "accepted" ELSE "raised",
             exc |-> counted.exc]

\* The summarized questions that _process_event hands over: the values come
\* from the data of an event, which the client has sent.
AnswerItems ==
    {[int |-> TRUE, val |-> v] : v \in -3..2} \cup {[int |-> FALSE, val |-> 0]}

SummarizedQuestions ==
    {[keys |-> keys, id |-> id, score |-> score, answers |-> answers] :
        keys \in {{"id", "score", "answers"}, {"id", "score"},
                  {"id", "score", "answers", "extra"}},
        id \in {"q1", "zz"},
        score \in {[number |-> TRUE, val |-> 0], [number |-> TRUE, val |-> 1],
                   [number |-> FALSE, val |-> 0]},
        answers \in {[list |-> FALSE, items |-> <<>>]}
                    \cup {[list |-> TRUE, items |-> items] :
                             items \in UNION {[1..n -> AnswerItems] :
                                                 n \in 0..MaxAnswers}}}

\* visit: the next summarized question of the list is appended.  An
\* exception leaves visit and ends the run of the job.
AppendData(summarized_question) ==
    /\ questions.exc = "ok"
    /\ questions.appended < MaxAppends
    /\ LET r == _append_data(summarized_question, questions.dict)
       IN questions' = [dict |-> r.dict,
                        appended |-> questions.appended + 1,
                        outcome |-> r.outcome, exc |-> r.exc]
    /\ UNCHANGED <<course, store, last, fs, procs, started, codec, agg, json>>

Init ==
    /\ course \in Courses
    /\ store = [s \in Students |-> NoEntity]
    /\ last = [outcome |-> "init", entity |-> "none", nputs |-> 0]
    /\ fs = "ok"
    /\ procs = [p \in Procs |-> NoRequest]
    /\ started = 0
    /\ codec = NoCodec
    /\ agg = NoAgg
    /\ json = NoJson
    /\ questions = NoQuestions

Next ==
    \/ \E student \in Students, ul \in UnitLessonInputs :
           PutActivityCompleted(student, ul[1], ul[2])
    \/ \E student \in Students, ul \in UnitLessonInputs :
           PutHtmlCompleted(student, ul[1], ul[2])
    \/ \E student \in Students, ul \in UnitLessonInputs,
          block_id \in BlockIdInputs :
           PutBlockCompleted(student, ul[1], ul[2], block_id)
    \/ \E student \in Students, ul \in UnitLessonInputs,
          cpt_id \in ComponentIdInputs :
           PutComponentCompleted(student, ul[1], ul[2], cpt_id)
    \/ \E student \in Students, assessment_id \in AssessmentIdInputs :
           PutAssessmentCompleted(student, assessment_id)
    \/ \E student \in Students, ul \in UnitLessonInputs :
           PutActivityAccessed(student, ul[1], ul[2])
    \/ \E student \in Students, ul \in UnitLessonInputs :
           PutHtmlAccessed(student, ul[1], ul[2])
    \/ \E student \in Students : GetUnitProgress(student)
    \/ \E student \in Students, unit_id \in UnitIdInputs :
           GetLessonProgress(student, unit_id)
    \/ \E student \in Students, ul \in UnitLessonInputs,
          cpt_id \in ComponentIdInputs :
           GetComponentProgress(student, ul[1], ul[2], cpt_id)

Spec == Init /\ [][Next]_vars

\* The same operations on a store in which the value of the student's
\* entity was left unset or was overwritten with text that is no JSON.
InitBlob ==
    /\ course \in Courses
    /\ \E blob \in {NoneBlob, BadBlob} :
           store = [s \in Students |->
                       IF is_transient(s) THEN NoEntity
                       ELSE [exists |-> TRUE, value |-> blob,
                             stamped |-> FALSE]]
    /\ last = [outcome |-> "init", entity |-> "none", nputs |-> 0]
    /\ fs = "ok"
    /\ procs = [p \in Procs |-> NoRequest]
    /\ started = 0
    /\ codec = NoCodec
    /\ agg = NoAgg
    /\ json = NoJson
    /\ questions = NoQuestions

SpecBlob == InitBlob /\ [][Next]_vars

\* The same operations on a course whose activity files may fail to load.
\* The file system changes between operations.
FsChange ==
    /\ \E state \in FsStates \ {fs} : fs' = state
    /\ UNCHANGED <<course, store, last, procs, started, codec, agg, json,
                   questions>>

InitLookup ==
    /\ course = CourseB
    /\ store = [s \in Students |-> NoEntity]
    /\ last = [outcome |-> "init", entity |-> "none", nputs |-> 0]
    /\ fs \in FsStates
    /\ procs = [p \in Procs |-> NoRequest]
    /\ started = 0
    /\ codec = NoCodec
    /\ agg = NoAgg
    /\ json = NoJson
    /\ questions = NoQuestions

NextLookup == Next \/ FsChange

SpecLookup == InitLookup /\ [][NextLookup]_vars

----------------------------------------------------------------------------
(* Concurrent requests.  Two requests run _put_event for students at the  *)
(* same time; the steps at which they touch the store interleave:         *)
(* StudentPropertyEntity.get, the put of a created entity, and the final  *)
(* put.  Each request works on its own copy of the entity it got.         *)

\* The events that the put_*_completed operations hand to _put_event: the
\* ids have passed validation.
PutEvents ==
    LET valid == {ul \in UnitLessonInputs :
                     is_valid_unit_lesson_id(ul[1], ul[2])}
    IN {[entity |-> "activity", key |-> _get_activity_key(ul[1], ul[2])] :
            ul \in valid}
       \cup {[entity |-> "html", key |-> _get_html_key(ul[1], ul[2])] :
                 ul \in valid}
       \cup UNION {{[entity |-> "block",
                     key |-> _get_block_key(ul[1], ul[2], block_id)] :
                        block_id \in get_valid_block_ids(ul[1], ul[2])} :
                   ul \in valid}
       \cup UNION {{[entity |-> "component",
                     key |-> _get_component_key(ul[1], ul[2], cpt_id)] :
                        cpt_id \in get_valid_component_ids(ul[1], ul[2])} :
                   ul \in valid}
       \cup {[entity |-> "assessment", key |-> _get_assessment_key(a)] :
                 a \in {x \in AssessmentIdInputs : is_valid_assessment_id(x)}}

\* _put_event up to StudentPropertyEntity.get in get_or_create_progress.
RaceGet(p, student, event) ==
    /\ procs[p].pc = "idle"
    /\ started < MaxRequests
    /\ ~is_transient(student)
    /\ event.entity \in DOMAIN EVENT_CODE_MAPPING
    /\ procs' = [procs EXCEPT ![p] =
                     [pc |-> IF store[student].exists
                             THEN "loaded" ELSE "absent",
                      student |-> student,
                      event_entity |-> event.entity, event_key |-> event.key,
                      progress |-> store[student]]]
    /\ started' = started + 1
    /\ UNCHANGED <<course, store, last, fs, codec, agg, json, questions>>

\* get_or_create_progress when get returned None: create and put.
RaceCreate(p) ==
    /\ procs[p].pc = "absent"
    /\ store' = Put(store, procs[p].student, StudentPropertyEntity_create)
    /\ procs' = [procs EXCEPT ![p].pc = "loaded",
                              ![p].progress = StudentPropertyEntity_create]
    /\ last' = [outcome |-> IF store[procs[p].student].exists
                            THEN "created_over" ELSE "created",
                entity |-> "none", nputs |-> 1]
    /\ UNCHANGED <<course, fs, started, codec, agg, json, questions>>

\* What the rest of _put_event stores for a request: _update_event on the
\* entity the request holds, updated_on, put.
RacePutResult(st, request) ==
    LET m == _update_event(InMemory(request.progress), request.event_entity,
                           request.event_key, TRUE)
    IN IF m.exc # "ok"
       THEN [store |-> st, outcome |-> "raised",
             entity |-> request.event_entity, nputs |-> 0, exc |-> m.exc]
       ELSE [store |-> Put(st, request.student,
                           [exists |-> TRUE, value |-> m.value,
                            stamped |-> TRUE]),
             outcome |-> IF st[request.student] = request.progress
                         THEN "recorded" ELSE "recorded_over",
             entity |-> request.event_entity, nputs |-> 1, exc |-> "ok"]

RacePut(p) ==
    /\ procs[p].pc = "loaded"
    /\ LET r == RacePutResult(store, procs[p])
       IN /\ CountersWithin(r.store)
          /\ store' = r.store
          /\ last' = [outcome |-> r.outcome, entity |-> r.entity,
                      nputs |-> r.nputs]
    /\ procs' = [procs EXCEPT ![p] = NoRequest]
    /\ UNCHANGED <<course, fs, started, codec, agg, json, questions>>

NextRace ==
    \/ \E p \in Procs, student \in Students, event \in PutEvents :
           RaceGet(p, student, event)
    \/ \E p \in Procs : RaceCreate(p)
    \/ \E p \in Procs : RacePut(p)

SpecRace == Init /\ [][NextRace]_vars

----------------------------------------------------------------------------
(* The key codec as a state machine: ids are chosen, the key of an entity  *)
(* is built from them, and generate_parent_id is applied to it as          *)
(* _update_event does for the derived entity.                              *)

\* The characters of an id, and the ids: also ids with dots in them.
IdChars == {"1", "b", "."}

Ids == UNION {[1..n -> IdChars] : n \in 1..MaxIdLen}

\* The tokens of the key of an entity for the ids the codec holds.
KeyTokens(entity, c) ==
    CASE entity = "unit" -> _get_unit_key(c.unit_id)
      [] entity = "lesson" -> _get_lesson_key(c.unit_id, c.lesson_id)
      [] entity = "activity" -> _get_activity_key(c.unit_id, c.lesson_id)
      [] entity = "html" -> _get_html_key(c.unit_id, c.lesson_id)
      [] entity = "component" ->
             _get_component_key(c.unit_id, c.lesson_id, c.item_id)
      [] entity = "block" -> _get_block_key(c.unit_id, c.lesson_id, c.item_id)
      [] entity = "assessment" -> _get_assessment_key(c.item_id)

\* A _get_*_key is called with the ids.
EncodeKey(entity) ==
    /\ codec.entity = "none"
    /\ codec' = [codec EXCEPT !.entity = entity,
                              !.key = str_format(KeyTokens(entity, codec))]
    /\ UNCHANGED <<course, store, last, fs, procs, started, agg, json,
                   questions>>

\* The key of the derived entity is taken from the key, as in _update_event.
ParentKey ==
    /\ codec.entity \in DOMAIN DERIVED_EVENTS
    /\ codec' = [codec EXCEPT !.entity = DERIVED_EVENTS[codec.entity],
                              !.key = generate_parent_id_str(codec.key),
                              !.parents = codec.parents + 1]
    /\ UNCHANGED <<course, store, last, fs, procs, started, agg, json,
                   questions>>

InitKeys ==
    /\ course = CourseA
    /\ store = [s \in Students |-> NoEntity]
    /\ last = [outcome |-> "init", entity |-> "none", nputs |-> 0]
    /\ fs = "ok"
    /\ procs = [p \in Procs |-> NoRequest]
    /\ started = 0
    /\ \E unit_id \in Ids, lesson_id \in Ids, item_id \in Ids :
           codec = [NoCodec EXCEPT !.unit_id = unit_id,
                                   !.lesson_id = lesson_id,
                                   !.item_id = item_id]
    /\ agg = NoAgg
    /\ json = NoJson
    /\ questions = NoQuestions

NextKeys ==
    \/ \E entity \in DOMAIN EVENT_CODE_MAPPING : EncodeKey(entity)
    \/ ParentKey

SpecKeys == InitKeys /\ [][NextKeys]_vars

----------------------------------------------------------------------------
(* ComputeStudentProgressStats.ProgressAggregator of                      *)
(* modules/dashboard/analytics.py                                          *)

\* visit that takes every key for a leaf.
visit_no_composite(progress_data, student_property) ==
    IF student_property.value.kind = "none"
    THEN [progress_data |-> progress_data, exc |-> "ok",
          student_property |-> student_property]
    ELSE LET r == loads(student_property.value)
             entity_scores == r.dict
             entity_score(entity) ==
                 IF entity \in DOMAIN progress_data
                 THEN progress_data[entity]
                 ELSE [progress |-> 0, completed |-> 0]
             updated(entity) ==
                 IF entity_scores[entity] # 0
                 THEN [entity_score(entity) EXCEPT !.completed = @ + 1]
                 ELSE entity_score(entity)
         IN IF r.exc # "ok"
            THEN [progress_data |-> progress_data, exc |-> r.exc,
                  student_property |-> student_property]
            ELSE [progress_data |->
                      [k \in DOMAIN progress_data \cup DOMAIN entity_scores |->
                          IF k \in DOMAIN entity_scores
                          THEN updated(k) ELSE progress_data[k]],
                  exc |-> "ok", student_property |-> student_property]

\* ProgressAggregator.visit that empties the value of the entity it has
\* visited.
visit_clears_value(progress_data, student_property) ==
    IF student_property.value.kind = "none"
    THEN [progress_data |-> progress_data, exc |-> "ok",
          student_property |-> student_property]
    ELSE LET r == loads(student_property.value)
             entity_scores == r.dict
             entity_score(entity) ==
                 IF entity \in DOMAIN progress_data
                 THEN progress_data[entity]
                 ELSE [progress |-> 0, completed |-> 0]
             updated(entity) ==
                 IF determine_if_composite_entity(entity)
                 THEN IF entity_scores[entity] = IN_PROGRESS_STATE
                      THEN [entity_score(entity) EXCEPT !.progress = @ + 1]
                      ELSE IF entity_scores[entity] = COMPLETED_STATE
                      THEN [entity_score(entity) EXCEPT !.completed = @ + 1]
                      ELSE entity_score(entity)
                 ELSE IF entity_scores[entity] # 0
                      THEN [entity_score(entity) EXCEPT !.completed = @ + 1]
                      ELSE entity_score(entity)
         IN IF r.exc # "ok"
            THEN [progress_data |-> progress_data, exc |-> r.exc,
                  student_property |-> student_property]
            ELSE [progress_data |->
                      [k \in DOMAIN progress_data \cup DOMAIN entity_scores |->
                          IF k \in DOMAIN entity_scores
                          THEN updated(k) ELSE progress_data[k]],
                  exc |-> "ok",
                  student_property |->
                      [student_property EXCEPT !.value = NoneBlob]]

\* ProgressAggregator.visit(student_property): the progress_data it leaves,
\* the exception it raises ("ok" when none) and the entity as it leaves it.
visit(progress_data, student_property) ==
    IF student_property.value.kind = "none"
    THEN [progress_data |-> progress_data, exc |-> "ok",
          student_property |-> student_property]
    ELSE LET r == loads(student_property.value)
             entity_scores == r.dict
             entity_score(entity) ==
                 IF entity \in DOMAIN progress_data
                 THEN progress_data[entity]
                 ELSE [progress |-> 0, completed |-> 0]
             updated(entity) ==
                 IF determine_if_composite_entity(entity)
                 THEN IF entity_scores[entity] = IN_PROGRESS_STATE
                      THEN [entity_score(entity) EXCEPT !.progress = @ + 1]
                      ELSE IF entity_scores[entity] = COMPLETED_STATE
                      THEN [entity_score(entity) EXCEPT !.completed = @ + 1]
                      ELSE entity_score(entity)
                 ELSE IF entity_scores[entity] # 0
                      THEN [entity_score(entity) EXCEPT !.completed = @ + 1]
                      ELSE entity_score(entity)
         IN IF r.exc # "ok"
            THEN [progress_data |-> progress_data, exc |-> r.exc,
                  student_property |-> student_property]
            ELSE [progress_data |->
                      [k \in DOMAIN progress_data \cup DOMAIN entity_scores |->
                          IF k \in DOMAIN entity_scores
                          THEN updated(k) ELSE progress_data[k]],
                  exc |-> "ok", student_property |-> student_property]

\* The entities that the aggregator is given: those that the tracker stores
\* for a student of the course in the course of a few operations, and one
\* whose value is no JSON.
StudentProperties ==
    LET st0 == [s \in Students |-> NoEntity]
        read == get_unit_progress(st0, "s1").store
        st1 == put_block_completed(st0, "s1", "1", "1", "0").store
        st2 == put_html_accessed(st1, "s1", "1", "1").store
        st3 == put_assessment_completed(st2, "s1", "Pre").store
    IN {read["s1"], st1["s1"], st2["s1"], st3["s1"],
        [exists |-> TRUE, value |-> BadBlob, stamped |-> FALSE]}

\* The aggregator visits one more entity.
Visit(student_property) ==
    /\ Len(agg.visited) < MaxVisits
    /\ LET r == visit(agg.progress_data, student_property)
       IN agg' = [progress_data |-> r.progress_data,
                  visited |-> Append(agg.visited, student_property),
                  exc |-> r.exc]
    /\ UNCHANGED <<course, store, last, fs, procs, started, codec, json,
                   questions>>

InitAgg ==
    /\ course = CourseA
    /\ store = [s \in Students |-> NoEntity]
    /\ last = [outcome |-> "init", entity |-> "none", nputs |-> 0]
    /\ fs = "ok"
    /\ procs = [p \in Procs |-> NoRequest]
    /\ started = 0
    /\ codec = NoCodec
    /\ agg = NoAgg
    /\ json = NoJson
    /\ questions = NoQuestions

NextAgg == \E student_property \in StudentProperties : Visit(student_property)

SpecAgg == InitAgg /\ [][NextAgg]_vars

----------------------------------------------------------------------------
(* transforms.loads, as tests/unit/models_transforms.py uses it.  A text  *)
(* is the list of its tokens: "s" is a string, the others stand for       *)
(* themselves.  A scanner returns the index after the value it has read,  *)
(* or 0 where the text has no value.                                      *)

RECURSIVE scan_once(_, _, _)
RECURSIVE JSONObject(_, _, _)
RECURSIVE JSONArray(_, _, _)

\* The pairs of an object from idx on, up to the closing brace.
JSONObject(text, idx, strict) ==
    IF idx + 1 > Len(text) \/ text[idx] # "s" \/ text[idx + 1] # ":"
    THEN 0
    ELSE LET end == scan_once(text, idx + 2, strict)
         IN IF end = 0 \/ end > Len(text) THEN 0
            ELSE IF text[end] = "}" THEN end + 1
            ELSE IF text[end] # "," THEN 0
            ELSE IF ~strict /\ end + 1 <= Len(text) /\ text[end + 1] = "}"
            THEN end + 2
            ELSE JSONObject(text, end + 1, strict)

\* The values of an array from idx on, up to the closing bracket.
JSONArray(text, idx, strict) ==
    LET end == scan_once(text, idx, strict)
    IN IF end = 0 \/ end > Len(text) THEN 0
       ELSE IF text[end] = "]" THEN end + 1
       ELSE IF text[end] # "," THEN 0
       ELSE IF ~strict /\ end + 1 <= Len(text) /\ text[end + 1] = "]"
       THEN end + 2
       ELSE JSONArray(text, end + 1, strict)

\* The value that starts at idx.
scan_once(text, idx, strict) ==
    IF idx > Len(text) THEN 0
    ELSE IF text[idx] = "s" THEN idx + 1
    ELSE IF text[idx] = "{"
    THEN IF idx + 1 <= Len(text) /\ text[idx + 1] = "}"
         THEN idx + 2
         ELSE JSONObject(text, idx + 1, strict)
    ELSE IF text[idx] = "["
    THEN IF idx + 1 <= Len(text) /\ text[idx + 1] = "]"
         THEN idx + 2
         ELSE JSONArray(text, idx + 1, strict)
    ELSE 0

\* transforms.loads that tolerates what the non-strict mode tolerates.
transforms_loads_lenient(text, strict) ==
    IF scan_once(text, 1, FALSE) # Len(text) + 1
    THEN [exc |-> "ValueError", ret |-> "none"]
    ELSE [exc |-> "ok",
          ret |-> IF text[1] = "{" THEN "dict"
                  ELSE IF text[1] = "[" THEN "list" ELSE "str"]

\* transforms.loads(text, strict=strict): the exception raised ("ok" when
\* none) and the type of the value returned.
transforms_loads(text, strict) ==
    IF scan_once(text, 1, strict) # Len(text) + 1
    THEN [exc |-> "ValueError", ret |-> "none"]
    ELSE [exc |-> "ok",
          ret |-> IF text[1] = "{" THEN "dict"
                  ELSE IF text[1] = "[" THEN "list" ELSE "str"]

RECURSIVE Items(_, _, _)
\* The values of a list, each after a key, with commas between them and,
\* where trailing, after the last.
Items(values, key, trailing) ==
    IF Len(values) = 0 THEN <<>>
    ELSE key \o values[1] \o
         (IF Len(values) > 1
          THEN <<",">> \o Items(Tail(values), key, trailing)
          ELSE IF trailing THEN <<",">> ELSE <<>>)

RECURSIVE JsonValues(_)
RECURSIVE JsonForests(_)

\* The lists of values of n nodes in all.
JsonForests(n) ==
    IF n = 0 THEN {<<>>}
    ELSE UNION {{<<v>> \o f : v \in JsonValues(k), f \in JsonForests(n - k)} :
                   k \in 1..n}

\* The texts of the values of n nodes: a string, or an object or an array
\* of values, written with or without a trailing comma.
JsonValues(n) ==
    (IF n = 1 THEN {<<"s">>} ELSE {})
    \cup {<<"{">> \o Items(f, <<"s", ":">>, trailing) \o <<"}">> :
             f \in JsonForests(n - 1), trailing \in BOOLEAN}
    \cup {<<"[">> \o Items(f, <<>>, trailing) \o <<"]">> :
             f \in JsonForests(n - 1), trailing \in BOOLEAN}

\* The texts handed to transforms.loads: the values of up to MaxNodes nodes,
\* whole or cut short of their last token.
JsonTexts ==
    LET whole == UNION {JsonValues(n) : n \in 1..MaxNodes}
    IN whole \cup {SubSeq(t, 1, Len(t) - 1) : t \in whole}

\* transforms.loads is called on the text.
Loads(strict) ==
    /\ json.result.exc = "none"
    /\ json' = [json EXCEPT !.strict = strict,
                            !.result = transforms_loads(json.text, strict)]
    /\ UNCHANGED <<course, store, last, fs, procs, started, codec, agg,
                   questions>>

InitJson ==
    /\ course = CourseA
    /\ store = [s \in Students |-> NoEntity]
    /\ last = [outcome |-> "init", entity |-> "none", nputs |-> 0]
    /\ fs = "ok"
    /\ procs = [p \in Procs |-> NoRequest]
    /\ started = 0
    /\ codec = NoCodec
    /\ agg = NoAgg
    /\ json \in {[NoJson EXCEPT !.text = t] : t \in JsonTexts}
    /\ questions = NoQuestions

NextJson == \E strict \in BOOLEAN : Loads(strict)

SpecJson == InitJson /\ [][NextJson]_vars

----------------------------------------------------------------------------
(* Properties *)

\* The progress dict stored for a student.
Rec(student) == DictOf(store[student])

\* The value of a key of a progress dict, 0 when the key is absent.
Val(d, k) == IF k \in DOMAIN d THEN d[k] ELSE NOT_STARTED_STATE

\* The composite keys of a progress dict with their values.
Composites(d) ==
    [k \in {x \in DOMAIN d : determine_if_composite_entity(x)} |-> d[k]]

\* The students that are not transient.
Enrolled == {s \in Students : ~is_transient(s)}

\* C1: Monotonicity.  From one operation to the next the value of every
\* composite key (unit, lesson, activity, html) of a student's record does
\* not decrease, and a key at COMPLETED stays at COMPLETED.
C1_Monotonic ==
    [][\A s \in Students : \A k \in DOMAIN Rec(s) :
           determine_if_composite_entity(k) =>
               /\ k \in DOMAIN DictOf(store'[s])
               /\ DictOf(store'[s])[k] >= Rec(s)[k]
               /\ Rec(s)[k] = COMPLETED_STATE =>
                      DictOf(store'[s])[k] = COMPLETED_STATE]_vars

\* A block event was recorded for an activity that was COMPLETED before it:
\* the only block of the lesson has been completed twice.
C1_Witness ==
    /\ course = CourseA
    /\ last.entity = "block" /\ last.outcome = "recorded"
    /\ Val(Rec("s1"), _get_block_key("1", "1", "0")) = 2
    /\ Val(Rec("s1"), _get_activity_key("1", "1")) = COMPLETED_STATE

NoOp(r) == r.exc = "ok" /\ r.nputs = 0 /\ r.store = store

\* C3: Invalid-id no-op.  In every reachable state, a record operation
\* whose unit/lesson pair, block id, component id or assessment id fails
\* validation raises nothing, makes no put and leaves the store unchanged:
\* no key is added and no record is created.
C3_InvalidNoOp ==
    \A student \in Students :
        /\ \A ul \in UnitLessonInputs :
               /\ ~is_valid_unit_lesson_id(ul[1], ul[2]) =>
                      /\ NoOp(put_activity_completed(store, student, ul[1], ul[2]))
                      /\ NoOp(put_html_completed(store, student, ul[1], ul[2]))
               /\ \A block_id \in BlockIdInputs :
                      (\/ ~is_valid_unit_lesson_id(ul[1], ul[2])
                       \/ block_id \notin get_valid_block_ids(ul[1], ul[2]))
                      => NoOp(put_block_completed(store, student, ul[1],
                                                  ul[2], block_id))
               /\ \A cpt_id \in ComponentIdInputs :
                      (\/ ~is_valid_unit_lesson_id(ul[1], ul[2])
                       \/ cpt_id \notin get_valid_component_ids(ul[1], ul[2]))
                      => NoOp(put_component_completed(store, student, ul[1],
                                                      ul[2], cpt_id))
        /\ \A assessment_id \in AssessmentIdInputs :
               ~is_valid_assessment_id(assessment_id) =>
                   NoOp(put_assessment_completed(store, student, assessment_id))

\* A block event with an invalid block id has just been ignored while the
\* student has a record with keys in it.
C3_Witness ==
    /\ last.outcome = "invalid_block"
    /\ Rec("s1") # EmptyDict

\* C4: Repeated block events.  From every reachable state, recording the
\* same valid block completion twice in a row for an enrolled student
\* leaves the block counter 2 higher than before the first event, and all
\* composite keys have the same values after the second event as after the
\* first.
C4_RepeatedBlock ==
    \A student \in Enrolled : \A ul \in UnitLessonInputs :
        \A block_id \in BlockIdInputs :
            LET key == _get_block_key(ul[1], ul[2], block_id)
                r1 == put_block_completed(store, student, ul[1], ul[2], block_id)
                r2 == put_block_completed(r1.store, student, ul[1], ul[2],
                                          block_id)
                d1 == DictOf(r1.store[student])
                d2 == DictOf(r2.store[student])
            IN (/\ is_valid_unit_lesson_id(ul[1], ul[2])
                /\ block_id \in get_valid_block_ids(ul[1], ul[2]))
               => /\ Val(d2, key) = Val(Rec(student), key) + 2
                  /\ Composites(d2) = Composites(d1)

\* The same block has been recorded twice in a row: its counter is 2 and
\* the last operation was a recorded block event.
C4_Witness ==
    /\ course = CourseB
    /\ last.entity = "block" /\ last.outcome = "recorded"
    /\ Val(Rec("s1"), _get_block_key("1", "1", "1")) = 2
    /\ Val(Rec("s1"), _get_block_key("1", "1", "0")) = 0

\* C5: Transient students.  In every reachable state, every record
\* operation invoked for a transient student, with valid or invalid ids,
\* raises nothing, makes no put and leaves the store unchanged, and
\* get_unit_progress and get_lesson_progress return the empty mapping and
\* get_component_progress returns 0, also without touching the store.
C5_Transient ==
    \A student \in Students : is_transient(student) =>
        /\ \A ul \in UnitLessonInputs :
               /\ NoOp(put_activity_completed(store, student, ul[1], ul[2]))
               /\ NoOp(put_html_completed(store, student, ul[1], ul[2]))
               /\ NoOp(put_activity_accessed(store, student, ul[1], ul[2]))
               /\ NoOp(put_html_accessed(store, student, ul[1], ul[2]))
               /\ \A block_id \in BlockIdInputs :
                      NoOp(put_block_completed(store, student, ul[1], ul[2],
                                               block_id))
               /\ \A cpt_id \in ComponentIdInputs :
                      /\ NoOp(put_component_completed(store, student, ul[1],
                                                      ul[2], cpt_id))
                      /\ NoOp(get_component_progress(store, student, ul[1],
                                                     ul[2], cpt_id))
                      /\ get_component_progress(store, student, ul[1], ul[2],
                                                cpt_id).ret = 0
        /\ \A assessment_id \in AssessmentIdInputs :
               NoOp(put_assessment_completed(store, student, assessment_id))
        /\ NoOp(get_unit_progress(store, student))
        /\ get_unit_progress(store, student).ret = EmptyDict
        /\ \A unit_id \in UnitIdInputs :
               /\ NoOp(get_lesson_progress(store, student, unit_id))
               /\ get_lesson_progress(store, student, unit_id).ret = EmptyDict

\* A valid event of the transient student has just been dropped: nothing is
\* stored for that student, while the enrolled student has a record.
C5_Witness ==
    /\ last.outcome = "transient"
    /\ ~store["t1"].exists
    /\ Rec("s1") # EmptyDict

\* The lessons the scenario of C6 is about: an activity whose only valid
\* block id is 0, no trackable component, and another lesson in the unit.
ScenarioLessons ==
    {l \in course.lessons :
        /\ l.activity /\ l.blocks = {"0"} /\ l.components = {}
        /\ \E other \in get_lessons(l.unit_id) : other.lesson_id # l.lesson_id}

BlocksOnly(student, l) ==
    /\ l.activity /\ l.components = {} /\ l.blocks # {}
    /\ \A block_id \in l.blocks :
           Val(Rec(student), _get_block_key(l.unit_id, l.lesson_id, block_id)) > 0
    /\ Val(Rec(student), _get_activity_key(l.unit_id, l.lesson_id))
           = COMPLETED_STATE
    /\ _get_html_key(l.unit_id, l.lesson_id) \notin DOMAIN Rec(student)

\* C7 as claimed: a lesson without trackable components whose activity was
\* completed by block events alone has its lesson key at COMPLETED.
C7_Original ==
    \A student \in Enrolled : \A l \in course.lessons :
        BlocksOnly(student, l) =>
            Val(Rec(student), _get_lesson_key(l.unit_id, l.lesson_id))
                = COMPLETED_STATE

\* C7 (amended): such a lesson has its lesson key at IN_PROGRESS, since the
\* html key is not COMPLETED; a lesson key is COMPLETED only when the html
\* key of the lesson is COMPLETED too.
C7_LessonNeedsHtml ==
    \A student \in Enrolled : \A l \in course.lessons :
        /\ BlocksOnly(student, l) =>
               Val(Rec(student), _get_lesson_key(l.unit_id, l.lesson_id))
                   = IN_PROGRESS_STATE
        /\ Val(Rec(student), _get_lesson_key(l.unit_id, l.lesson_id))
               = COMPLETED_STATE
           => Val(Rec(student), _get_html_key(l.unit_id, l.lesson_id))
                  = COMPLETED_STATE

\* A block event has just completed the activity of a lesson without
\* components for which no html event was recorded.
C7_Witness ==
    /\ last.entity = "block" /\ last.outcome = "recorded"
    /\ \E l \in course.lessons : BlocksOnly("s1", l)

\* The valid unit/lesson pairs among the inputs.
ValidUnitLessons ==
    {ul \in UnitLessonInputs : is_valid_unit_lesson_id(ul[1], ul[2])}

\* The results of the put_*_completed operations on valid ids for a student
\* in the current store.
ValidRecordResults(student) ==
    {put_activity_completed(store, student, ul[1], ul[2]) :
         ul \in ValidUnitLessons}
    \cup {put_html_completed(store, student, ul[1], ul[2]) :
              ul \in ValidUnitLessons}
    \cup UNION {{put_block_completed(store, student, ul[1], ul[2], block_id) :
                     block_id \in get_valid_block_ids(ul[1], ul[2])} :
                ul \in ValidUnitLessons}
    \cup UNION {{put_component_completed(store, student, ul[1], ul[2], cpt_id) :
                     cpt_id \in get_valid_component_ids(ul[1], ul[2])} :
                ul \in ValidUnitLessons}
    \cup {put_assessment_completed(store, student, assessment_id) :
              assessment_id \in {a \in AssessmentIdInputs :
                                    is_valid_assessment_id(a)}}

PutByAccessed ==
    \A student \in Enrolled : \A ul \in ValidUnitLessons :
        \A r \in {put_activity_accessed(store, student, ul[1], ul[2]),
                  put_html_accessed(store, student, ul[1], ul[2])} :
            \/ r.outcome = "not_marked" /\ NoOp(r)
            \/ /\ r.outcome = "recorded"
               /\ r.nputs = IF store[student].exists THEN 1 ELSE 2
               /\ r.store[student].stamped

ReadOutcomes == {"returned", "read_raised", "transient_read"}

\* C9 as claimed: a record comes to exist only by a recorded event, and a
\* read operation never changes the store.
C9_Original ==
    [][/\ last'.outcome \in ReadOutcomes => store' = store
       /\ \A s \in Students :
              ~store[s].exists /\ store'[s].exists
                  => last'.outcome = "recorded"]_vars

\* C9 (amended): a record comes to exist only for an enrolled student, by
\* that student's first record operation that passes validation (recorded,
\* or failed after the record was fetched) or first read operation,
\* whichever is first; a read or a failed operation creates it empty, and a
\* read never changes a record that exists.  A record is never deleted.
C9_LazyCreation ==
    [][\A s \in Students :
           /\ ~store[s].exists /\ store'[s].exists
                  => /\ ~is_transient(s)
                     /\ last'.outcome \in {"recorded", "raised", "returned"}
                     /\ last'.outcome \in {"raised", "returned"}
                            => store'[s] = StudentPropertyEntity_create
           /\ store[s].exists
                  => /\ store'[s].exists
                     /\ last'.outcome \in ReadOutcomes
                            => store'[s] = store[s]]_vars

\* A read operation has just created the empty record of the student.
C9_Witness ==
    /\ last.outcome = "returned" /\ last.nputs = 1
    /\ store["s1"] = StudentPropertyEntity_create

\* P holds of the result of every read operation for a student in the
\* current store that looks up a key of the record (get_lesson_progress
\* looks up none for a unit without lessons).
AllReads(student, P(_)) ==
    /\ P(get_unit_progress(store, student))
    /\ \A unit_id \in UnitIdInputs :
           get_lessons(unit_id) # {} =>
               P(get_lesson_progress(store, student, unit_id))
    /\ \A ul \in UnitLessonInputs : \A cpt_id \in ComponentIdInputs :
           P(get_component_progress(store, student, ul[1], ul[2], cpt_id))

\* The operation with result r raised nothing.
RaisesNothing(r) == r.exc = "ok"

\* The operation with result r raised ValueError and left the store as it is.
RaisesValueError(r) == r.exc = "ValueError" /\ r.store = store

----------------------------------------------------------------------------
(* Read summaries and the rules of the cascade *)

\* C15: Read summaries.  In every reachable state, for an enrolled student,
\* get_unit_progress raises nothing and returns for every unit of type 'U'
\* the stored unit state, 0 when the key is absent, a value of {0, 1, 2};
\* get_lesson_progress returns for every lesson of the unit the stored html
\* and activity states, 0 when absent.  An absent key is reported as 0.
C15_ReadSummaries ==
    \A student \in Enrolled :
        /\ get_unit_progress(store, student).exc = "ok"
        /\ \A u \in get_units : u.type = "U" =>
               LET ret == get_unit_progress(store, student).ret[u.unit_id]
               IN /\ ret = Val(Rec(student), _get_unit_key(u.unit_id))
                  /\ ret \in {NOT_STARTED_STATE, IN_PROGRESS_STATE,
                              COMPLETED_STATE}
        /\ \A unit_id \in UnitIdInputs :
               LET r == get_lesson_progress(store, student, unit_id)
               IN /\ r.exc = "ok"
                  /\ DOMAIN r.ret = {l.lesson_id : l \in get_lessons(unit_id)}
                  /\ \A id \in DOMAIN r.ret :
                         /\ r.ret[id].html =
                                Val(Rec(student), _get_html_key(unit_id, id))
                         /\ r.ret[id].activity =
                                Val(Rec(student), _get_activity_key(unit_id, id))

\* A read has just returned for a student whose record holds the key of
\* unit 1 at IN_PROGRESS and no key for unit 2.
C15_Witness ==
    /\ course = CourseB
    /\ last.outcome = "returned"
    /\ Val(Rec("s1"), _get_unit_key("1")) = IN_PROGRESS_STATE
    /\ _get_unit_key("2") \notin DOMAIN Rec("s1")

\* C19: Unit completion is eager.  In every reachable state (the end of an
\* operation), a unit with at least one lesson whose lessons are all
\* COMPLETED has its unit key COMPLETED.
C19_UnitEager ==
    \A student \in Students : \A u \in get_units :
        (/\ get_lessons(u.unit_id) # {}
         /\ \A lesson \in get_lessons(u.unit_id) :
                Val(Rec(student), _get_lesson_key(u.unit_id, lesson.lesson_id))
                    = COMPLETED_STATE)
        => Val(Rec(student), _get_unit_key(u.unit_id)) = COMPLETED_STATE

\* Both lessons of unit 1 are COMPLETED at the end of a recorded event.
C19_Witness ==
    /\ course = CourseA
    /\ last.outcome = "recorded"
    /\ Val(Rec("s1"), _get_lesson_key("1", "1")) = COMPLETED_STATE
    /\ Val(Rec("s1"), _get_lesson_key("1", "2")) = COMPLETED_STATE

\* C20: Lesson rule.  In every reachable state (the end of an operation) a
\* lesson key is COMPLETED if and only if the html key of the lesson is
\* COMPLETED and, when the lesson has an activity, its activity key is
\* COMPLETED.
C20_LessonRule ==
    \A student \in Students : \A l \in course.lessons :
        Val(Rec(student), _get_lesson_key(l.unit_id, l.lesson_id))
            = COMPLETED_STATE
        <=> /\ Val(Rec(student), _get_html_key(l.unit_id, l.lesson_id))
                   = COMPLETED_STATE
            /\ l.activity =>
                   Val(Rec(student), _get_activity_key(l.unit_id, l.lesson_id))
                       = COMPLETED_STATE

\* A lesson with an activity is COMPLETED, its html key having been
\* completed before the event that completed its activity.
C20_Witness ==
    /\ course = CourseB
    /\ last.outcome = "recorded" /\ last.entity = "block"
    /\ Val(Rec("s1"), _get_lesson_key("1", "1")) = COMPLETED_STATE

----------------------------------------------------------------------------
(* Failure of the course-structure lookup *)

\* The lesson exists in a unit of type 'U' and has an activity.
HasActivity(unit_id, lesson_id) ==
    /\ is_valid_unit_lesson_id(unit_id, lesson_id)
    /\ \E l \in get_lessons(unit_id) : l.lesson_id = lesson_id /\ l.activity

\* C17: Course-structure lookup failure.  In every reachable state, for an
\* enrolled student: put_block_completed on a lesson with an activity whose
\* file fails to load raises and leaves the store as it is; when the load
\* fails only in the activity updater of the cascade (valid block, activity
\* not completed yet) the operation raises too and the progress dict stored
\* for the student has the keys and values it had; and whenever
\* put_block_completed raises it ends "raised" with the stored dict
\* unchanged.
C17_LookupFailure ==
    \A student \in Enrolled : \A ul \in UnitLessonInputs :
        \A block_id \in BlockIdInputs :
            LET r == put_block_completed(store, student, ul[1], ul[2], block_id)
            IN /\ (fs = "fails" /\ HasActivity(ul[1], ul[2]))
                      => r.exc = "Exception" /\ r.store = store
               /\ (/\ fs = "fails_later"
                   /\ is_valid_unit_lesson_id(ul[1], ul[2])
                   /\ block_id \in get_valid_block_ids(ul[1], ul[2])
                   /\ Val(Rec(student), _get_activity_key(ul[1], ul[2]))
                          # COMPLETED_STATE)
                      => r.exc = "Exception"
               /\ r.exc # "ok"
                      => /\ r.outcome = "raised"
                         /\ DictOf(r.store[student]) = Rec(student)
                         /\ \A other \in Students \ {student} :
                                r.store[other] = store[other]

\* The enumeration of the blocks has just failed in the cascade of the first
\* block event of the student: the record was created and holds no key.
C17_Witness ==
    /\ last.outcome = "raised" /\ last.entity = "block" /\ last.nputs = 1
    /\ store["s1"] = StudentPropertyEntity_create

----------------------------------------------------------------------------
(* Concurrent requests *)

\* Every composite key of dict d is in dict e with a value that is not lower.
NotLower(d, e) ==
    \A k \in DOMAIN d :
        determine_if_composite_entity(k) => k \in DOMAIN e /\ e[k] >= d[k]

\* C11 as claimed: also when requests interleave, the stored value of a
\* composite key never decreases from one stored version to the next.
C11_Original ==
    [][\A s \in Students : NotLower(Rec(s), DictOf(store'[s]))]_vars

\* C11 (amended): the version a request puts holds every composite key of
\* the version that request loaded, with a value that is not lower; so the
\* stored value of a composite key does not decrease when the stored record
\* is still the one the request loaded.
C11_NotLowerThanLoaded ==
    [][\A p \in Procs :
           (procs[p].pc = "loaded" /\ procs'[p].pc = "idle")
           => LET s == procs[p].student
              IN /\ NotLower(DictOf(procs[p].progress), DictOf(store'[s]))
                 /\ store[s] = procs[p].progress
                        => NotLower(Rec(s), DictOf(store'[s]))]_vars

\* A request has just put its version over a stored version that another
\* request had put after the first one loaded.
C11_Witness ==
    /\ last.outcome = "recorded_over"
    /\ Rec("s1") # EmptyDict
    /\ \A p \in Procs : procs[p].pc = "idle"

\* The composite keys of the record stored for the student in store st.
StoredComposites(st, student) == Composites(DictOf(st[student]))

\* C12: Self-correction after a lost update.  Whenever two requests for the
\* same student hold the same loaded record and both go on to put, the put
\* of the second overwriting that of the first, recording the event of the
\* first once more yields the composite states that recording the two
\* events one after the other from the loaded record yields.
C12_SelfCorrection ==
    \A p \in Procs : \A q \in Procs \ {p} :
        (/\ procs[p].pc = "loaded" /\ procs[q].pc = "loaded"
         /\ procs[p].student = procs[q].student
         /\ procs[p].progress = procs[q].progress)
        => LET s == procs[p].student
               first == RacePutResult(store, procs[p])
               second == RacePutResult(first.store, procs[q])
               again == _put_event(second.store, s, procs[p].event_entity,
                                   procs[p].event_key)
               loaded == Put(store, s, procs[p].progress)
               one == _put_event(loaded, s, procs[p].event_entity,
                                 procs[p].event_key)
               two == _put_event(one.store, s, procs[q].event_entity,
                                 procs[q].event_key)
           IN /\ second.store[s].value = RacePutResult(store, procs[q]).store[s].value
              /\ again.exc = "ok" /\ two.exc = "ok"
              /\ StoredComposites(again.store, s) = StoredComposites(two.store, s)

\* Two requests hold the same loaded record and different events for the
\* same lesson: whichever puts first loses its update.
C12_Witness ==
    /\ procs["p1"].pc = "loaded" /\ procs["p2"].pc = "loaded"
    /\ procs["p1"].progress = procs["p2"].progress
    /\ procs["p1"].event_entity = "block"
    /\ procs["p2"].event_entity = "html"
    /\ SubSeq(procs["p1"].event_key, 1, 4) = SubSeq(procs["p2"].event_key, 1, 4)

----------------------------------------------------------------------------
(* Key codec *)

\* The id has no dot in it.
DotFree(id) == \A i \in 1..Len(id) : id[i] # "."

\* The ids the codec holds are dot-free.
DotFreeIds ==
    DotFree(codec.unit_id) /\ DotFree(codec.lesson_id) /\ DotFree(codec.item_id)

\* C13: Key round-trip (ancestor chain).  For dot-free ids, the key reached
\* from the key of an entity by generate_parent_id, once or several times,
\* is the key that the _get_*_key of the entity reached builds from the same
\* ids: activity from block, html from component, lesson from activity and
\* html, unit from lesson.
C13_AncestorChain ==
    (DotFreeIds /\ codec.entity # "none")
    => /\ codec.key = str_format(KeyTokens(codec.entity, codec))
       /\ codec.entity \in DOMAIN DERIVED_EVENTS
              => generate_parent_id_str(codec.key)
                     = str_format(KeyTokens(DERIVED_EVENTS[codec.entity], codec))

\* The key of a unit has been reached from the key of a block, three
\* parents up, with dot-free ids of two characters.
C13_Witness ==
    /\ DotFreeIds
    /\ codec.entity = "unit" /\ codec.parents = 3
    /\ Len(codec.unit_id) = 2 /\ Len(codec.lesson_id) = 2
    /\ codec.key = <<"u", ".">> \o codec.unit_id

----------------------------------------------------------------------------
(* Aggregator *)

\* The number of visited entities whose dict has key k with P(k, value).
Tally(k, P(_, _)) ==
    Cardinality({i \in 1..Len(agg.visited) :
                    /\ k \in DOMAIN DictOf(agg.visited[i])
                    /\ P(k, DictOf(agg.visited[i])[k])})

\* k is a composite key with value IN_PROGRESS.
InProgress(k, v) ==
    determine_if_composite_entity(k) /\ v = IN_PROGRESS_STATE

\* k is a composite key with value COMPLETED or a leaf key with a counter
\* that is not 0.
Completed(k, v) ==
    IF determine_if_composite_entity(k) THEN v = COMPLETED_STATE ELSE v # 0

\* k is a key of the dict.
Present(k, v) == TRUE

\* The progress_data that visiting the entities of a list in turn gives.
RECURSIVE VisitAll(_)
VisitAll(entities) ==
    IF Len(entities) = 0 THEN EmptyDict
    ELSE visit(VisitAll(SubSeq(entities, 1, Len(entities) - 1)),
               entities[Len(entities)]).progress_data

\* C16: Aggregator tallies.  After any visits, progress_data has an entry
\* for exactly the keys of the visited entities; the 'progress' tally of a
\* key is the number of visited entities in which the key is composite with
\* value IN_PROGRESS, its 'completed' tally the number in which it is
\* composite with value COMPLETED or a leaf with a counter other than 0; and
\* visiting the same entities in any other order gives the same
\* progress_data.
C16_Tallies ==
    /\ \A k \in UNION {DOMAIN DictOf(e) : e \in StudentProperties} :
           IF k \in DOMAIN agg.progress_data
           THEN /\ Tally(k, Present) > 0
                /\ agg.progress_data[k].progress = Tally(k, InProgress)
                /\ agg.progress_data[k].completed = Tally(k, Completed)
           ELSE Tally(k, Present) = 0
    /\ DOMAIN agg.progress_data
           \subseteq UNION {DOMAIN DictOf(e) : e \in StudentProperties}
    /\ \A perm \in Permutations(1..Len(agg.visited)) :
           VisitAll([i \in 1..Len(agg.visited) |-> agg.visited[perm[i]]])
               = agg.progress_data

\* Three entities have been visited; the key of lesson 1 of unit 1 is
\* IN_PROGRESS in one of them and COMPLETED in two.
C16_Witness ==
    /\ Len(agg.visited) = 3
    /\ _get_lesson_key("1", "1") \in DOMAIN agg.progress_data
    /\ agg.progress_data[_get_lesson_key("1", "1")]
           = [progress |-> 1, completed |-> 2]

----------------------------------------------------------------------------
(* Strict parsing *)

\* The text has a comma right before a closing brace or bracket.
TrailingComma(text) ==
    \E i \in 1..(Len(text) - 1) :
        text[i] = "," /\ text[i + 1] \in {"}", "]"}

\* C18: Strict parsing rejects malformed input.  transforms.loads in its
\* default (strict) mode, called on a text with a trailing comma in an
\* object or in an array, raises ValueError and returns no value.
C18_StrictRejects ==
    (json.result.exc # "none" /\ json.strict /\ TrailingComma(json.text))
        => json.result = [exc |-> "ValueError", ret |-> "none"]

\* transforms.loads in strict mode has raised ValueError on
\* {"s": ["s",],}, a text that non-strict mode reads as a dict.
C18_Witness ==
    /\ json.text = <<"{", "s", ":", "[", "s", ",", "]", ",", "}">>
    /\ json.strict
    /\ json.result.exc = "ValueError"
    /\ transforms_loads(json.text, FALSE) = [exc |-> "ok", ret |-> "dict"]

----------------------------------------------------------------------------
(* Derived values of the activity and html keys *)

\* In dict d, an activity key at COMPLETED has every valid block id of its
\* lesson at a counter above 0, and an html key at COMPLETED has every valid
\* component id of its lesson at a counter above 0.
LeafParents(d) ==
    \A l \in course.lessons :
        /\ Val(d, _get_activity_key(l.unit_id, l.lesson_id)) = COMPLETED_STATE
               => \A block_id \in get_valid_block_ids(l.unit_id, l.lesson_id) :
                      Val(d, _get_block_key(l.unit_id, l.lesson_id, block_id)) > 0
        /\ Val(d, _get_html_key(l.unit_id, l.lesson_id)) = COMPLETED_STATE
               => \A cpt_id \in get_valid_component_ids(l.unit_id, l.lesson_id) :
                      Val(d, _get_component_key(l.unit_id, l.lesson_id, cpt_id)) > 0

\* The results, for a student in the current store, of every record
\* operation on every input except the direct marks.
DerivedResults(student) ==
    UNION {{put_block_completed(store, student, ul[1], ul[2], block_id) :
                block_id \in BlockIdInputs} : ul \in UnitLessonInputs}
    \cup UNION {{put_component_completed(store, student, ul[1], ul[2], cpt_id) :
                     cpt_id \in ComponentIdInputs} : ul \in UnitLessonInputs}
    \cup {put_assessment_completed(store, student, assessment_id) :
              assessment_id \in AssessmentIdInputs}
    \cup {put_activity_accessed(store, student, ul[1], ul[2]) :
              ul \in UnitLessonInputs}
    \cup {put_html_accessed(store, student, ul[1], ul[2]) :
              ul \in UnitLessonInputs}

\* The results of the direct marks on the lessons whose valid blocks
\* (put_activity_completed) or valid components (put_html_completed) all
\* have a counter above 0 in the student's record.
DirectMarksOnCompletedLeaves(student) ==
    {put_activity_completed(store, student, ul[1], ul[2]) :
         ul \in {x \in UnitLessonInputs :
                    \A block_id \in get_valid_block_ids(x[1], x[2]) :
                        Val(Rec(student),
                            _get_block_key(x[1], x[2], block_id)) > 0}}
    \cup {put_html_completed(store, student, ul[1], ul[2]) :
              ul \in {x \in UnitLessonInputs :
                         \A cpt_id \in get_valid_component_ids(x[1], x[2]) :
                             Val(Rec(student),
                                 _get_component_key(x[1], x[2], cpt_id)) > 0}}

----------------------------------------------------------------------------
(* Leaf counters *)

\* The operation with result r has been recorded and has brought the
\* counter of the leaf key to one more than in the student's current record.
IncrementsLeaf(r, student, key) ==
    /\ r.outcome = "recorded"
    /\ key \in DOMAIN DictOf(r.store[student])
    /\ DictOf(r.store[student])[key] = Val(Rec(student), key) + 1

\* Every valid leaf event of an enrolled student adds exactly 1 to the
\* counter of its leaf (an absent key becomes 1), and the is_*_completed
\* predicates are true exactly of the leaves with a counter of at least 1.
LeafIncrement ==
    \A student \in Enrolled :
        /\ \A ul \in ValidUnitLessons :
               /\ \A block_id \in get_valid_block_ids(ul[1], ul[2]) :
                      /\ IncrementsLeaf(
                             put_block_completed(store, student, ul[1], ul[2],
                                                 block_id),
                             student, _get_block_key(ul[1], ul[2], block_id))
                      /\ is_block_completed(InMemory(store[student]), ul[1],
                                            ul[2], block_id)
                             <=> Val(Rec(student),
                                     _get_block_key(ul[1], ul[2], block_id)) >= 1
               /\ \A cpt_id \in get_valid_component_ids(ul[1], ul[2]) :
                      /\ IncrementsLeaf(
                             put_component_completed(store, student, ul[1],
                                                     ul[2], cpt_id),
                             student, _get_component_key(ul[1], ul[2], cpt_id))
                      /\ is_component_completed(InMemory(store[student]), ul[1],
                                                ul[2], cpt_id)
                             <=> Val(Rec(student),
                                     _get_component_key(ul[1], ul[2], cpt_id)) >= 1
        /\ \A assessment_id \in {a \in AssessmentIdInputs :
                                    is_valid_assessment_id(a)} :
               /\ IncrementsLeaf(
                      put_assessment_completed(store, student, assessment_id),
                      student, _get_assessment_key(assessment_id))
               /\ is_assessment_completed(InMemory(store[student]),
                                          assessment_id)
                      <=> Val(Rec(student),
                              _get_assessment_key(assessment_id)) >= 1

\* From one operation to the next a leaf counter either stays or grows by 1
\* in a recorded event of the leaf's entity type, so that its value is the
\* number of the events recorded for it.
LeafCountsEvents ==
    \A s \in Students :
        \A k \in {x \in DOMAIN Rec(s) \cup DOMAIN DictOf(store'[s]) :
                     ~determine_if_composite_entity(x)} :
            \/ /\ k \in DOMAIN Rec(s) <=> k \in DOMAIN DictOf(store'[s])
               /\ Val(DictOf(store'[s]), k) = Val(Rec(s), k)
            \/ /\ Val(DictOf(store'[s]), k) = Val(Rec(s), k) + 1
               /\ last'.outcome = "recorded"
               /\ EVENT_CODE_MAPPING[last'.entity] = get_entity_type_from_key(k)

\* C22: Leaf counters.  Each valid put_block_completed,
\* put_component_completed or put_assessment_completed of an enrolled
\* student increases the counter of that leaf by exactly 1 (an absent key
\* becomes 1); no other operation changes a leaf counter, so that after n
\* such operations in sequence its value is n; and is_block_completed,
\* is_component_completed and is_assessment_completed are true exactly when
\* the counter is at least 1.
C22_LeafCounters == []LeafIncrement /\ [][LeafCountsEvents]_vars

\* The assessment has been completed twice and the component once: their
\* counters are 2 and 1, and both count as completed.
C22_Witness ==
    /\ course = CourseA
    /\ last.entity = "assessment" /\ last.outcome = "recorded"
    /\ Val(Rec("s1"), _get_assessment_key("Pre")) = 2
    /\ Val(Rec("s1"), _get_component_key("1", "2", "c1")) = 1
    /\ is_assessment_completed(InMemory(store["s1"]), "Pre")
    /\ is_component_completed(InMemory(store["s1"]), "1", "2", "c1")

----------------------------------------------------------------------------
(* Direct marks *)

\* The value that the lesson updater leaves in the lesson key, given dict d
\* in which the keys of the lesson's activity and html have their new
\* values.
LessonValue(d, l) ==
    IF Val(d, _get_lesson_key(l.unit_id, l.lesson_id)) = COMPLETED_STATE
    THEN COMPLETED_STATE
    ELSE IF /\ l.activity =>
                   Val(d, _get_activity_key(l.unit_id, l.lesson_id))
                       = COMPLETED_STATE
            /\ Val(d, _get_html_key(l.unit_id, l.lesson_id)) = COMPLETED_STATE
    THEN COMPLETED_STATE
    ELSE IN_PROGRESS_STATE

\* The value that the unit updater leaves in the unit key, given dict d in
\* which the lesson keys of the unit have their new values.
UnitValue(d, unit_id) ==
    IF Val(d, _get_unit_key(unit_id)) = COMPLETED_STATE
    THEN COMPLETED_STATE
    ELSE IF \A lesson \in get_lessons(unit_id) :
                Val(d, _get_lesson_key(unit_id, lesson.lesson_id))
                    = COMPLETED_STATE
    THEN COMPLETED_STATE
    ELSE IN_PROGRESS_STATE

\* The direct mark with result r, made on key of lesson l for the student,
\* set the key to COMPLETED, ran no updater on it, and then ran the lesson
\* and the unit updaters: the lesson and unit keys have the values derived
\* from their children.
DirectlyMarked(r, student, l, key, updater) ==
    LET d == DictOf(r.store[student])
        m == _update_event(InMemory(store[student]), updater, key, TRUE)
    IN /\ r.outcome = "recorded"
       /\ Val(d, key) = COMPLETED_STATE
       /\ m.ran = <<"_update_lesson", "_update_unit">>
       /\ Val(d, _get_lesson_key(l.unit_id, l.lesson_id))
              = LessonValue(DictSet(Rec(student), key, COMPLETED_STATE), l)
       /\ Val(d, _get_unit_key(l.unit_id)) = UnitValue(d, l.unit_id)
       /\ \A k \in DOMAIN d \cup DOMAIN Rec(student) :
              k \notin {key, _get_lesson_key(l.unit_id, l.lesson_id),
                        _get_unit_key(l.unit_id)}
                  => k \in DOMAIN d /\ Val(d, k) = Val(Rec(student), k)

----------------------------------------------------------------------------
(* The accessed operations *)

\* C24: Zero-children fast path.  In every reachable state and for every
\* student and unit/lesson pair, put_activity_accessed on a lesson with at
\* least one valid block id, and put_html_accessed on a lesson with at least
\* one valid component id, raise nothing, make no put and leave the store
\* as it is; on a lesson without valid block ids (resp. component ids) they
\* record the event and leave the activity (resp. html) key at COMPLETED
\* when the pair is valid and the student enrolled, and do nothing
\* otherwise.
C24_ZeroChildren ==
    \A student \in Students : \A ul \in UnitLessonInputs :
        LET a == put_activity_accessed(store, student, ul[1], ul[2])
            h == put_html_accessed(store, student, ul[1], ul[2])
        IN /\ IF get_valid_block_ids(ul[1], ul[2]) # {}
              THEN a.outcome = "not_marked" /\ NoOp(a)
              ELSE IF student \in Enrolled
                      /\ is_valid_unit_lesson_id(ul[1], ul[2])
              THEN /\ a.outcome = "recorded"
                   /\ Val(DictOf(a.store[student]),
                          _get_activity_key(ul[1], ul[2])) = COMPLETED_STATE
              ELSE NoOp(a)
           /\ IF get_valid_component_ids(ul[1], ul[2]) # {}
              THEN h.outcome = "not_marked" /\ NoOp(h)
              ELSE IF student \in Enrolled
                      /\ is_valid_unit_lesson_id(ul[1], ul[2])
              THEN /\ h.outcome = "recorded"
                   /\ Val(DictOf(h.store[student]),
                          _get_html_key(ul[1], ul[2])) = COMPLETED_STATE
              ELSE NoOp(h)

\* An accessed operation on a lesson with valid blocks or components has
\* just left the record as it was, with its activity key at IN_PROGRESS.
C24_Witness ==
    /\ course = CourseB
    /\ last.outcome = "not_marked"
    /\ Val(Rec("s1"), _get_activity_key("1", "1")) = IN_PROGRESS_STATE
    /\ Val(Rec("s1"), _get_html_key("1", "1")) = NOT_STARTED_STATE

----------------------------------------------------------------------------
(* The cascade *)

\* The call is that of an updater.
IsUpdater(call) == call # "get_activity_as_python"

\* The updaters that _put_event runs, in order, for an event of the student
\* in the current store.
UpdatersRun(student, event_entity, event_key) ==
    SelectSeq(_update_event(InMemory(store[student]), event_entity,
                            event_key, TRUE).ran,
              IsUpdater)

\* C25: Unconditional cascade.  In every reachable state a valid event of
\* an enrolled student runs the updater of every ancestor of its key up to
\* the unit, in order: activity, lesson, unit for a block; html, lesson,
\* unit for a component; lesson, unit for an activity or html mark.  This
\* is so whatever the values of the ancestors are, also when one of them is
\* COMPLETED already and its updater changes nothing.
C25_Cascade ==
    \A student \in Enrolled : \A ul \in ValidUnitLessons :
        /\ \A block_id \in get_valid_block_ids(ul[1], ul[2]) :
               UpdatersRun(student, "block",
                           _get_block_key(ul[1], ul[2], block_id))
                   = <<"_update_activity", "_update_lesson", "_update_unit">>
        /\ \A cpt_id \in get_valid_component_ids(ul[1], ul[2]) :
               UpdatersRun(student, "component",
                           _get_component_key(ul[1], ul[2], cpt_id))
                   = <<"_update_html", "_update_lesson", "_update_unit">>
        /\ UpdatersRun(student, "activity", _get_activity_key(ul[1], ul[2]))
               = <<"_update_lesson", "_update_unit">>
        /\ UpdatersRun(student, "html", _get_html_key(ul[1], ul[2]))
               = <<"_update_lesson", "_update_unit">>

\* Both blocks of the lesson have been completed twice, so that the last
\* block event found the activity COMPLETED; the lesson is IN_PROGRESS, and
\* one more block event runs the three updaters.
C25_Witness ==
    /\ course = CourseB
    /\ last.entity = "block" /\ last.outcome = "recorded"
    /\ Val(Rec("s1"), _get_block_key("1", "1", "0")) = 2
    /\ Val(Rec("s1"), _get_block_key("1", "1", "1")) = 2
    /\ Val(Rec("s1"), _get_activity_key("1", "1")) = COMPLETED_STATE
    /\ Val(Rec("s1"), _get_lesson_key("1", "1")) = IN_PROGRESS_STATE
    /\ UpdatersRun("s1", "block", _get_block_key("1", "1", "0"))
           = <<"_update_activity", "_update_lesson", "_update_unit">>

----------------------------------------------------------------------------
(* First contact *)

\* Every key of the set is in the student's dict in the store of result r,
\* with value IN_PROGRESS or COMPLETED, and the event was recorded.
Touched(r, student, keys) ==
    /\ r.outcome = "recorded"
    /\ \A k \in keys :
           /\ k \in DOMAIN DictOf(r.store[student])
           /\ DictOf(r.store[student])[k]
                  \in {IN_PROGRESS_STATE, COMPLETED_STATE}

----------------------------------------------------------------------------
(* Frame of an event *)

\* The operation with result r was recorded, left every key of the
\* student's dict outside the set as it was (present with the same value,
\* or absent), and left the entities of the other students as they were.
ChangesOnly(r, student, keys) ==
    /\ r.outcome = "recorded"
    /\ \A k \in (DOMAIN Rec(student) \cup DOMAIN DictOf(r.store[student])) \ keys :
           /\ k \in DOMAIN Rec(student)
           /\ k \in DOMAIN DictOf(r.store[student])
           /\ DictOf(r.store[student])[k] = Rec(student)[k]
    /\ \A other \in Students \ {student} : r.store[other] = store[other]

\* C27: Frame of one event.  In every reachable state and for an enrolled
\* student, a valid block (resp. component) event changes at most the leaf
\* key and its activity (resp. html), lesson and unit keys; a direct
\* activity or html mark changes at most that key and its lesson and unit
\* keys; a valid assessment event changes only the assessment key.  Every
\* other key of the record, and every other student's record, is left as it
\* was.
C27_Frame ==
    \A student \in Enrolled :
        /\ \A ul \in ValidUnitLessons :
               LET lesson_unit ==
                       {_get_lesson_key(ul[1], ul[2]), _get_unit_key(ul[1])}
               IN /\ \A block_id \in get_valid_block_ids(ul[1], ul[2]) :
                         ChangesOnly(
                             put_block_completed(store, student, ul[1], ul[2],
                                                 block_id),
                             student,
                             lesson_unit
                                 \cup {_get_block_key(ul[1], ul[2], block_id),
                                       _get_activity_key(ul[1], ul[2])})
                  /\ \A cpt_id \in get_valid_component_ids(ul[1], ul[2]) :
                         ChangesOnly(
                             put_component_completed(store, student, ul[1],
                                                     ul[2], cpt_id),
                             student,
                             lesson_unit
                                 \cup {_get_component_key(ul[1], ul[2], cpt_id),
                                       _get_html_key(ul[1], ul[2])})
                  /\ ChangesOnly(
                         put_activity_completed(store, student, ul[1], ul[2]),
                         student,
                         lesson_unit \cup {_get_activity_key(ul[1], ul[2])})
                  /\ ChangesOnly(
                         put_html_completed(store, student, ul[1], ul[2]),
                         student,
                         lesson_unit \cup {_get_html_key(ul[1], ul[2])})
        /\ \A assessment_id \in {a \in AssessmentIdInputs :
                                    is_valid_assessment_id(a)} :
               ChangesOnly(
                   put_assessment_completed(store, student, assessment_id),
                   student, {_get_assessment_key(assessment_id)})

\* A block event has just been recorded in a record that holds a sibling
\* block, a component of the same lesson and the keys of another unit.
C27_Witness ==
    /\ course = CourseB
    /\ last.entity = "block" /\ last.outcome = "recorded"
    /\ Val(Rec("s1"), _get_block_key("1", "1", "1")) = 1
    /\ Val(Rec("s1"), _get_block_key("1", "1", "0")) = 1
    /\ Val(Rec("s1"), _get_component_key("1", "1", "c1")) = 2
    /\ Val(Rec("s1"), _get_unit_key("2")) = COMPLETED_STATE
    /\ Val(Rec("s1"), _get_html_key("2", "3")) = COMPLETED_STATE

----------------------------------------------------------------------------
(* Values of the composite keys *)

\* Every composite key present in a stored record has value IN_PROGRESS or
\* COMPLETED.
CompositeDomain ==
    \A s \in Students : \A k \in DOMAIN Rec(s) :
        determine_if_composite_entity(k) =>
            Rec(s)[k] \in {IN_PROGRESS_STATE, COMPLETED_STATE}

\* From one operation to the next a composite key goes from absent to 1 or
\* 2, from 1 to 1 or 2, or from 2 to 2, or stays absent.
CompositeTransitions ==
    \A s \in Students :
        \A k \in {x \in DOMAIN Rec(s) \cup DOMAIN DictOf(store'[s]) :
                     determine_if_composite_entity(x)} :
            /\ k \in DOMAIN DictOf(store'[s])
            /\ IF k \notin DOMAIN Rec(s)
               THEN DictOf(store'[s])[k] \in {IN_PROGRESS_STATE, COMPLETED_STATE}
               ELSE <<Rec(s)[k], DictOf(store'[s])[k]>>
                        \in {<<IN_PROGRESS_STATE, IN_PROGRESS_STATE>>,
                             <<IN_PROGRESS_STATE, COMPLETED_STATE>>,
                             <<COMPLETED_STATE, COMPLETED_STATE>>}

\* C28: Composite value domain.  In every reachable record a unit, lesson,
\* activity or html key that is present has value 1 (IN_PROGRESS) or 2
\* (COMPLETED), and the only transitions of such a key from one operation to
\* the next are absent->1, absent->2, 1->1, 1->2 and 2->2.
C28_CompositeDomain == []CompositeDomain /\ [][CompositeTransitions]_vars

\* A component event has just completed the html and the lesson of a lesson
\* without activity; the unit, which has another lesson, is IN_PROGRESS.
C28_Witness ==
    /\ course = CourseA
    /\ last.entity = "component" /\ last.outcome = "recorded"
    /\ Val(Rec("s1"), _get_html_key("1", "2")) = COMPLETED_STATE
    /\ Val(Rec("s1"), _get_lesson_key("1", "2")) = COMPLETED_STATE
    /\ Val(Rec("s1"), _get_unit_key("1")) = IN_PROGRESS_STATE
    /\ _get_lesson_key("1", "1") \notin DOMAIN Rec("s1")

----------------------------------------------------------------------------
(* The meaning of the composite values as the class comment gives it *)

\* The direct sub-entities of a unit, lesson or activity key of the course
\* that are completed in dict d, and all its direct sub-entities: the
\* lessons of a unit, the activity (if any) and the html of a lesson, the
\* valid blocks of an activity.
SubEntities(k) ==
    IF get_entity_type_from_key(k) = EVENT_CODE_MAPPING.unit
    THEN {_get_lesson_key(k[2], l.lesson_id) : l \in get_lessons(k[2])}
    ELSE IF get_entity_type_from_key(k) = EVENT_CODE_MAPPING.lesson
    THEN {_get_html_key(k[2], k[4])}
         \cup {_get_activity_key(k[2], k[4]) :
                  l \in {x \in get_lessons(k[2]) :
                            x.lesson_id = k[4] /\ x.activity}}
    ELSE {_get_block_key(k[2], k[4], block_id) :
             block_id \in get_valid_block_ids(k[2], k[4])}

\* The sub-entity has been completed in dict d: a composite at COMPLETED, a
\* leaf with a counter above 0.
SubEntityCompleted(d, k) ==
    IF determine_if_composite_entity(k)
    THEN Val(d, k) = COMPLETED_STATE
    ELSE Val(d, k) > 0

\* The unit, lesson and activity keys of the course.
DocumentedComposites ==
    {_get_unit_key(u.unit_id) : u \in {x \in get_units : x.type = "U"}}
    \cup {_get_lesson_key(l.unit_id, l.lesson_id) : l \in course.lessons}
    \cup {_get_activity_key(l.unit_id, l.lesson_id) :
             l \in {x \in course.lessons : x.activity}}

\* C29: Meaning of the composite values as documented in the code.  In every
\* reachable record a unit, lesson or activity key has value 1 only if
\* some, but not all, of its direct sub-entities have been completed, value
\* 2 only if all of them have been completed, and is 0 or absent only if
\* none has been completed.
C29_Documented ==
    \A s \in Students : \A k \in DocumentedComposites :
        LET done == {x \in SubEntities(k) : SubEntityCompleted(Rec(s), x)}
        IN /\ Val(Rec(s), k) = IN_PROGRESS_STATE
                  => done # {} /\ done # SubEntities(k)
           /\ Val(Rec(s), k) = COMPLETED_STATE => done = SubEntities(k)
           /\ Val(Rec(s), k) = NOT_STARTED_STATE => done = {}

----------------------------------------------------------------------------
(* Loads of the activity file *)

----------------------------------------------------------------------------
(* Termination of the cascade *)

RECURSIVE DerivedChain(_, _)
\* The entities derived from an entity, one after the other, as far as
\* DERIVED_EVENTS leads and for at most the given number of steps.
DerivedChain(event_entity, steps) ==
    IF steps = 0 \/ event_entity \notin DOMAIN DERIVED_EVENTS
    THEN <<>>
    ELSE <<DERIVED_EVENTS[event_entity]>>
         \o DerivedChain(DERIVED_EVENTS[event_entity], steps - 1)

\* The name of the updater of an entity.
UpdaterName(event_entity) ==
    CASE event_entity = "activity" -> "_update_activity"
      [] event_entity = "html" -> "_update_html"
      [] event_entity = "lesson" -> "_update_lesson"
      [] event_entity = "unit" -> "_update_unit"

\* The derived updates of an event of the student in the current store are
\* those of the chain of its entity: at most three, the last one the
\* unit's, and none for an entity without a derived parent.
CascadeEnds(student, event_entity, event_key) ==
    LET chain == DerivedChain(event_entity,
                              Cardinality(DOMAIN EVENT_CODE_MAPPING))
        run == UpdatersRun(student, event_entity, event_key)
    IN /\ Len(run) <= 3
       /\ run = [i \in 1..Len(chain) |-> UpdaterName(chain[i])]
       /\ IF event_entity = "assessment"
          THEN run = <<>>
          ELSE run[Len(run)] = "_update_unit"
       /\ _update_event(InMemory(store[student]), event_entity, event_key,
                        TRUE).exc = "ok"

\* C31: Cascade termination.  The chain of derived entities of every event
\* entity ends after at most three steps, at the unit, which has no derived
\* parent; and in every reachable state the cascade of a valid event of an
\* enrolled student ends without an exception after at most three derived
\* updates, the last of them the unit's, or after none for an assessment.
C31_Termination ==
    /\ \A event_entity \in DOMAIN EVENT_CODE_MAPPING :
           LET chain == DerivedChain(event_entity,
                                     Cardinality(DOMAIN EVENT_CODE_MAPPING))
           IN /\ Len(chain) <= 3
              /\ chain # <<>> => chain[Len(chain)] = "unit"
    /\ "unit" \notin DOMAIN DERIVED_EVENTS
    /\ \A student \in Enrolled :
           /\ \A ul \in ValidUnitLessons :
                  /\ \A block_id \in get_valid_block_ids(ul[1], ul[2]) :
                         CascadeEnds(student, "block",
                                     _get_block_key(ul[1], ul[2], block_id))
                  /\ \A cpt_id \in get_valid_component_ids(ul[1], ul[2]) :
                         CascadeEnds(student, "component",
                                     _get_component_key(ul[1], ul[2], cpt_id))
                  /\ CascadeEnds(student, "activity",
                                 _get_activity_key(ul[1], ul[2]))
                  /\ CascadeEnds(student, "html", _get_html_key(ul[1], ul[2]))
           /\ \A assessment_id \in {a \in AssessmentIdInputs :
                                       is_valid_assessment_id(a)} :
                  CascadeEnds(student, "assessment",
                              _get_assessment_key(assessment_id))

\* An assessment event, which has no derived update, has just been recorded
\* in a record that a block event, with its three derived updates, had
\* filled before.
C31_Witness ==
    /\ course = CourseA
    /\ last.entity = "assessment" /\ last.outcome = "recorded"
    /\ Val(Rec("s1"), _get_assessment_key("Pre")) = 1
    /\ Val(Rec("s1"), _get_block_key("1", "1", "0")) = 1
    /\ Val(Rec("s1"), _get_unit_key("1")) = IN_PROGRESS_STATE
    /\ UpdatersRun("s1", "block", _get_block_key("1", "1", "0"))
           = <<"_update_activity", "_update_lesson", "_update_unit">>

----------------------------------------------------------------------------
(* Key injectivity *)

\* The ids that the _get_*_key of an entity is called with, in order.
IdSequence(entity, c) ==
    CASE entity \in {"unit"} -> <<c.unit_id>>
      [] entity \in {"lesson", "activity", "html"} ->
             <<c.unit_id, c.lesson_id>>
      [] entity \in {"component", "block"} ->
             <<c.unit_id, c.lesson_id, c.item_id>>
      [] entity = "assessment" -> <<c.item_id>>

\* The entity type and the ids that the text of a key is read back as: the
\* type whose code is the last token but one, and the tokens at the even
\* places but the sixth, which is the literal 0.
DecodeKey(text) ==
    LET parts == str_split(text)
        code == parts[Len(parts) - 1]
    IN [entity |-> IF \E e \in DOMAIN EVENT_CODE_MAPPING :
                         <<EVENT_CODE_MAPPING[e]>> = code
                   THEN CHOOSE e \in DOMAIN EVENT_CODE_MAPPING :
                            <<EVENT_CODE_MAPPING[e]>> = code
                   ELSE "none",
        ids |-> IF Len(parts) = 8 THEN <<parts[2], parts[4], parts[8]>>
                ELSE IF Len(parts) \in {4, 6} THEN <<parts[2], parts[4]>>
                ELSE <<parts[2]>>]

\* C32: Key injectivity.  For dot-free ids, the key that a _get_*_key
\* builds reads back as the entity type and the sequence of ids it was
\* built from, so that no two distinct pairs of a type and a sequence of
\* ids build the same key: in particular the key of a block, with the code
\* of the activity in it, is the key of no component, and the key of an
\* assessment is the key of no unit, the latter also when the ids have
\* dots in them, since the two start with different codes.
C32_Injective ==
    /\ (DotFreeIds /\ codec.entity # "none")
       => DecodeKey(codec.key)
              = [entity |-> codec.entity,
                 ids |-> IdSequence(codec.entity, codec)]
    /\ (DotFreeIds /\ codec.entity \in {"block", "component"})
       => LET parts == str_split(codec.key)
          IN /\ parts[5] = <<EVENT_CODE_MAPPING.activity>>
                    <=> codec.entity = "block"
             /\ parts[5] = <<EVENT_CODE_MAPPING.html>>
                    <=> codec.entity = "component"
    /\ (codec.entity \in {"assessment", "unit"})
       => (codec.key[1] = EVENT_CODE_MAPPING.assessment
               <=> codec.entity = "assessment")

\* The key of a block has been built from dot-free ids of two characters,
\* the block id starting with the code of the block.
C32_Witness ==
    /\ DotFreeIds
    /\ codec.entity = "block" /\ codec.parents = 0
    /\ codec.unit_id = <<"1", "b">> /\ codec.lesson_id = <<"b", "1">>
    /\ codec.item_id = <<"b", "b">>
    /\ codec.key = <<"u", ".", "1", "b", ".", "l", ".", "b", "1", ".",
                     "a", ".", "0", ".", "b", ".", "b", "b">>

----------------------------------------------------------------------------
(* Two enrolled students.  The requests of the students run _put_event    *)
(* step by step and at the same time, and the students read their         *)
(* progress in between.                                                    *)

\* The students, with a second enrolled one.
AllStudents == Students \cup {"s2"}

InitStudents ==
    /\ course = CourseA
    /\ store = [s \in AllStudents |-> NoEntity]
    /\ last = [outcome |-> "init", entity |-> "none", nputs |-> 0]
    /\ fs = "ok"
    /\ procs = [p \in Procs |-> NoRequest]
    /\ started = 0
    /\ codec = NoCodec
    /\ agg = NoAgg
    /\ json = NoJson
    /\ questions = NoQuestions

\* The events of the requests of the students: a block of the first lesson
\* and the assessment.
StudentEvents ==
    {event \in PutEvents :
        event.key \in {_get_block_key("1", "1", "0"),
                       _get_assessment_key("Pre")}}

NextStudents ==
    \/ \E p \in Procs, student \in AllStudents, event \in StudentEvents :
           RaceGet(p, student, event)
    \/ \E p \in Procs : RaceCreate(p)
    \/ \E p \in Procs : RacePut(p)
    \/ \E student \in AllStudents : GetUnitProgress(student)

SpecStudents == InitStudents /\ [][NextStudents]_vars

\* The step is a step of a record operation or a read of the student.
StudentStep(student) ==
    \/ \E p \in Procs, event \in PutEvents : RaceGet(p, student, event)
    \/ \E p \in Procs :
           /\ procs[p].student = student
           /\ RaceCreate(p) \/ RacePut(p)
    \/ GetUnitProgress(student)

\* The step leaves the stored entity of every other student as it is.
OthersUntouched(student) ==
    \A other \in AllStudents \ {student} : store'[other] = store[other]

\* C33: Cross-student isolation.  Every step of a record operation or of
\* a read of a student, in every interleaving of the steps of the
\* operations of two enrolled students and a transient one, leaves the
\* stored Progress Record of every other student as it is: not created,
\* not changed, not deleted.
C33_Isolation ==
    [][\A student \in AllStudents :
           StudentStep(student) => OthersUntouched(student)]_vars

\* Both enrolled students have a record, the first one's with a block in
\* it, and each of them has a request that has loaded its record and not
\* yet put it.
C33_Witness ==
    /\ procs["p1"].pc = "loaded" /\ procs["p1"].student = "s1"
    /\ procs["p2"].pc = "loaded" /\ procs["p2"].student = "s2"
    /\ store["s2"].exists /\ DictOf(store["s2"]) = EmptyDict
    /\ store["s1"].exists
    /\ Val(DictOf(store["s1"]), _get_block_key("1", "1", "0")) = 1

----------------------------------------------------------------------------
(* The aggregator at work while requests are recorded: run() hands to     *)
(* visit the entities that are stored at the time, one after the other,   *)
(* and the requests of the student run _put_event step by step in         *)
(* between.                                                                *)

\* mapper.run(student_progress.visit): the next stored entity is visited.
\* The entity is stored as visit leaves it only if visit has changed it.
VisitStored(student) ==
    /\ store[student].exists
    /\ Len(agg.visited) < MaxVisits
    /\ LET r == visit(agg.progress_data, store[student])
       IN /\ agg' = [progress_data |-> r.progress_data,
                     visited |-> Append(agg.visited, store[student]),
                     exc |-> r.exc]
          /\ store' = [store EXCEPT ![student] = r.student_property]
    /\ UNCHANGED <<course, last, fs, procs, started, codec, json, questions>>

InitLive ==
    /\ course = CourseA
    /\ store = [s \in Students |-> NoEntity]
    /\ last = [outcome |-> "init", entity |-> "none", nputs |-> 0]
    /\ fs = "ok"
    /\ procs = [p \in Procs |-> NoRequest]
    /\ started = 0
    /\ codec = NoCodec
    /\ agg = NoAgg
    /\ json = NoJson
    /\ questions = NoQuestions

NextLive ==
    \/ \E p \in Procs, student \in Students, event \in StudentEvents :
           RaceGet(p, student, event)
    \/ \E p \in Procs : RaceCreate(p)
    \/ \E p \in Procs : RacePut(p)
    \/ \E student \in Students : VisitStored(student)

SpecLive == InitLive /\ [][NextLive]_vars

\* The step is a visit of the aggregator.
VisitStep == \E student \in Students : VisitStored(student)

\* C34: Aggregator is read-only.  A visit of the aggregator changes its
\* tallies only: the entity that visit leaves is the entity it was given,
\* and a visit made between the load, create and put steps of the record
\* operations leaves every stored Progress Record, every record that a
\* request has loaded and the result of the last operation as they are.
C34_ReadOnly ==
    /\ [](\A student \in Students :
              visit(agg.progress_data, store[student]).student_property
                  = store[student])
    /\ [][VisitStep => /\ store' = store
                       /\ procs' = procs
                       /\ last' = last]_vars

\* The aggregator has visited the record of the student with one block in
\* it, and has counted the block once, while a request that has loaded
\* the record has not yet put it; the stored record has the block.
C34_Witness ==
    /\ Len(agg.visited) >= 1
    /\ _get_block_key("1", "1", "0") \in DOMAIN agg.progress_data
    /\ agg.progress_data[_get_block_key("1", "1", "0")].completed = 1
    /\ \E p \in Procs : procs[p].pc = "loaded" /\ procs[p].student = "s1"
    /\ Val(Rec("s1"), _get_block_key("1", "1", "0")) = 1

----------------------------------------------------------------------------
(* Stored versions under racing requests *)

\* The derivation invariants of a progress dict: a unit at COMPLETED has
\* every lesson at COMPLETED, and a lesson at COMPLETED has its html and,
\* if it has one, its activity at COMPLETED.
DerivationInvariants(d) ==
    /\ \A u \in get_units :
           Val(d, _get_unit_key(u.unit_id)) = COMPLETED_STATE
           => \A lesson \in get_lessons(u.unit_id) :
                  Val(d, _get_lesson_key(u.unit_id, lesson.lesson_id))
                      = COMPLETED_STATE
    /\ \A l \in course.lessons :
           Val(d, _get_lesson_key(l.unit_id, l.lesson_id)) = COMPLETED_STATE
           => /\ Val(d, _get_html_key(l.unit_id, l.lesson_id))
                     = COMPLETED_STATE
              /\ l.activity
                     => Val(d, _get_activity_key(l.unit_id, l.lesson_id))
                            = COMPLETED_STATE

\* C35: Snapshot consistency under races.  In every interleaving of the
\* load, create and put steps of the record operations of a student on a
\* fixed course, the stored version of the record and every version that a
\* request has loaded satisfy the derivation invariants, also after a put
\* that has overwritten, and so lost, the update of another request.
C35_Snapshots ==
    /\ \A s \in Students : DerivationInvariants(Rec(s))
    /\ \A p \in Procs : DerivationInvariants(DictOf(procs[p].progress))

\* A request has just put a version with the first lesson at COMPLETED
\* over a version that another request had put after the first one
\* loaded: the block of the other request is lost.
C35_Witness ==
    /\ course = CourseA
    /\ last.outcome = "recorded_over"
    /\ Val(Rec("s1"), _get_lesson_key("1", "1")) = COMPLETED_STATE
    /\ Val(Rec("s1"), _get_unit_key("1")) = IN_PROGRESS_STATE
    /\ _get_block_key("1", "1", "0") \notin DOMAIN Rec("s1")
    /\ started = 3

----------------------------------------------------------------------------
(* Order of two operations *)

\* The record operations on valid ids: the name of the operation and its
\* arguments, "-" where the operation has none.
ValidOperations ==
    {[name |-> name, unit_id |-> ul[1], lesson_id |-> ul[2], id |-> "-"] :
        name \in {"put_activity_completed", "put_html_completed",
                  "put_activity_accessed", "put_html_accessed"},
        ul \in ValidUnitLessons}
    \cup UNION {{[name |-> "put_block_completed", unit_id |-> ul[1],
                  lesson_id |-> ul[2], id |-> block_id] :
                     block_id \in get_valid_block_ids(ul[1], ul[2])} :
                ul \in ValidUnitLessons}
    \cup UNION {{[name |-> "put_component_completed", unit_id |-> ul[1],
                  lesson_id |-> ul[2], id |-> cpt_id] :
                     cpt_id \in get_valid_component_ids(ul[1], ul[2])} :
                ul \in ValidUnitLessons}
    \cup {[name |-> "put_assessment_completed", unit_id |-> "-",
           lesson_id |-> "-", id |-> assessment_id] :
             assessment_id \in {a \in AssessmentIdInputs :
                                   is_valid_assessment_id(a)}}

\* The result of the operation for the student in store st.
Perform(st, student, op) ==
    CASE op.name = "put_activity_completed" ->
             put_activity_completed(st, student, op.unit_id, op.lesson_id)
      [] op.name = "put_html_completed" ->
             put_html_completed(st, student, op.unit_id, op.lesson_id)
      [] op.name = "put_activity_accessed" ->
             put_activity_accessed(st, student, op.unit_id, op.lesson_id)
      [] op.name = "put_html_accessed" ->
             put_html_accessed(st, student, op.unit_id, op.lesson_id)
      [] op.name = "put_block_completed" ->
             put_block_completed(st, student, op.unit_id, op.lesson_id, op.id)
      [] op.name = "put_component_completed" ->
             put_component_completed(st, student, op.unit_id, op.lesson_id,
                                     op.id)
      [] op.name = "put_assessment_completed" ->
             put_assessment_completed(st, student, op.id)

\* The store after the two operations, one after the other.
Both(student, first, second) ==
    Perform(Perform(store, student, first).store, student, second)

\* The stored records are as the last operation has put them, or no
\* operation has run yet: every record that is ever stored is seen in such
\* a state.
JustPut == last.nputs >= 1 \/ last.outcome = "init"

\* C36: Order independence.  For every record that is ever stored for an
\* enrolled student and every two record operations on valid ids,
\* each of the two raises nothing, and performing the two one after the
\* other from the stored record leaves the same stored Progress Record in
\* both orders: the same leaf counters and the same composite states.
C36_OrderIndependent ==
    JustPut
    => \A student \in Enrolled : \A a \in ValidOperations :
           /\ Perform(store, student, a).exc = "ok"
           /\ \A b \in ValidOperations :
                  Both(student, a, b).store = Both(student, b, a).store

\* An activity of two blocks is IN_PROGRESS after one of its blocks, so
\* that the other block and the html of the lesson, in either order,
\* complete the activity.
C36_Witness ==
    /\ course = CourseB
    /\ JustPut
    /\ Val(Rec("s1"), _get_block_key("1", "1", "0")) = 1
    /\ Val(Rec("s1"), _get_activity_key("1", "1")) = IN_PROGRESS_STATE
    /\ LET block == [name |-> "put_block_completed", unit_id |-> "1",
                     lesson_id |-> "1", id |-> "1"]
           html == [name |-> "put_html_completed", unit_id |-> "1",
                    lesson_id |-> "1", id |-> "-"]
       IN /\ block \in ValidOperations /\ html \in ValidOperations
          /\ Val(DictOf(Both("s1", block, html).store["s1"]),
                 _get_lesson_key("1", "1")) = COMPLETED_STATE
          /\ Val(DictOf(Perform(store, "s1", html).store["s1"]),
                 _get_lesson_key("1", "1")) = IN_PROGRESS_STATE

----------------------------------------------------------------------------
(* A course that is edited between the events: the tracker asks the       *)
(* course of the moment (self._get_course()) at every operation.          *)

\* The course before the edit: one unit with one lesson, whose activity
\* has one block and whose html has no component.
CourseBeforeEdit ==
    [units |-> {[unit_id |-> "1", type |-> "U"]},
     lessons |-> {[unit_id |-> "1", lesson_id |-> "1", activity |-> TRUE,
                   blocks |-> {"0"}, components |-> {}]}]

\* The course after the edit: the unit has a second lesson, the activity
\* of the first lesson a second block and its html a component.
CourseAfterEdit ==
    [units |-> {[unit_id |-> "1", type |-> "U"]},
     lessons |-> {[unit_id |-> "1", lesson_id |-> "1", activity |-> TRUE,
                   blocks |-> {"0", "1"}, components |-> {"c1"}],
                  [unit_id |-> "1", lesson_id |-> "2", activity |-> TRUE,
                   blocks |-> {"0"}, components |-> {}]}]

\* The course is edited.
EditCourse ==
    /\ course = CourseBeforeEdit
    /\ course' = CourseAfterEdit
    /\ UNCHANGED <<store, last, fs, procs, started, codec, agg, json,
                   questions>>

InitEdit ==
    /\ course = CourseBeforeEdit
    /\ store = [s \in Students |-> NoEntity]
    /\ last = [outcome |-> "init", entity |-> "none", nputs |-> 0]
    /\ fs = "ok"
    /\ procs = [p \in Procs |-> NoRequest]
    /\ started = 0
    /\ codec = NoCodec
    /\ agg = NoAgg
    /\ json = NoJson
    /\ questions = NoQuestions

NextEdit == Next \/ EditCourse

SpecEdit == InitEdit /\ [][NextEdit]_vars

\* The updater of a composite key, by the length and the code of the key.
UpdaterOf(m, k) ==
    CASE get_entity_type_from_key(k) = EVENT_CODE_MAPPING.unit ->
             _update_unit(m, k)
      [] get_entity_type_from_key(k) = EVENT_CODE_MAPPING.lesson ->
             _update_lesson(m, k)
      [] get_entity_type_from_key(k) = EVENT_CODE_MAPPING.activity ->
             _update_activity(m, k)
      [] get_entity_type_from_key(k) = EVENT_CODE_MAPPING.html ->
             _update_html(m, k)

\* The composite keys of the stored record of the student at COMPLETED.
CompletedComposites(student) ==
    {k \in DOMAIN Rec(student) :
        determine_if_composite_entity(k)
            /\ Rec(student)[k] = COMPLETED_STATE}

\* The updater of every composite at COMPLETED returns at once: it leaves
\* the dict as it is and loads nothing, whatever the course of the moment
\* says about the children.
CompletedReturn ==
    \A s \in Students : \A k \in CompletedComposites(s) :
        UpdaterOf(InMemory(store[s]), k) = InMemory(store[s])

\* A step, an edit of the course or an operation, leaves every composite
\* at COMPLETED at COMPLETED.
CompletedStays ==
    \A s \in Students : \A k \in CompletedComposites(s) :
        Val(DictOf(store'[s]), k) = COMPLETED_STATE

\* C37: Completion survives course edits.  When the course is edited
\* between the events, so that a composite at COMPLETED has a new child
\* that is not completed (a new lesson of the unit, a new valid block of
\* the activity, a new component of the html), every later event leaves
\* the composite at COMPLETED, and its updater returns without deriving
\* the state again.
C37_SurvivesEdits ==
    []CompletedReturn /\ [][CompletedStays]_vars

\* After the edit an event of the new lesson has been recorded: the unit,
\* the activity and the html completed before the edit are COMPLETED while
\* the new lesson, the new block and the new component are not completed.
C37_Witness ==
    /\ course = CourseAfterEdit
    /\ last.outcome = "recorded"
    /\ Val(Rec("s1"), _get_unit_key("1")) = COMPLETED_STATE
    /\ Val(Rec("s1"), _get_lesson_key("1", "2")) = IN_PROGRESS_STATE
    /\ Val(Rec("s1"), _get_activity_key("1", "1")) = COMPLETED_STATE
    /\ Val(Rec("s1"), _get_block_key("1", "1", "1")) = NOT_STARTED_STATE
    /\ Val(Rec("s1"), _get_html_key("1", "1")) = COMPLETED_STATE
    /\ Val(Rec("s1"), _get_component_key("1", "1", "c1")) = NOT_STARTED_STATE

----------------------------------------------------------------------------
(* Activity keys *)

\* The valid unit/lesson pairs whose lesson has no activity.
NoActivityLessons ==
    {ul \in ValidUnitLessons : ~HasActivity(ul[1], ul[2])}

\* C38: No activity key without an activity.  In every reachable Progress
\* Record the activity key of a unit/lesson pair is present only when the
\* lesson has an activity, and put_activity_accessed and
\* put_activity_completed on a valid unit/lesson pair whose lesson has no
\* activity leave the record as it is.
C38_NoActivityKey ==
    /\ \A s \in Students : \A ul \in UnitLessonInputs :
           _get_activity_key(ul[1], ul[2]) \in DOMAIN Rec(s)
               => HasActivity(ul[1], ul[2])
    /\ \A s \in Enrolled : \A ul \in NoActivityLessons :
           /\ put_activity_accessed(store, s, ul[1], ul[2]).store = store
           /\ put_activity_completed(store, s, ul[1], ul[2]).store = store

----------------------------------------------------------------------------
(* Question statistics *)

InitQuestions ==
    /\ course = CourseA
    /\ store = [s \in Students |-> NoEntity]
    /\ last = [outcome |-> "init", entity |-> "none", nputs |-> 0]
    /\ fs = "ok"
    /\ procs = [p \in Procs |-> NoRequest]
    /\ started = 0
    /\ codec = NoCodec
    /\ agg = NoAgg
    /\ json = NoJson
    /\ questions = NoQuestions

NextQuestions ==
    \E summarized_question \in SummarizedQuestions :
        AppendData(summarized_question)

SpecQuestions == InitQuestions /\ [][NextQuestions]_vars

\* The number of the answers of the list that are the index i.
Submitted(items, i) ==
    Cardinality({j \in 1..Len(items) : items[j].val = i})

\* C39: Question statistics update is all-or-nothing and index-safe.  For
\* the statistics at hand and every summarized question, _append_data
\* either rejects it and leaves every statistic as it is, or accepts it:
\* then every answer is an index i with 0 <= i < number of choices, the
\* num_attempts of the question is one more, its score is increased by the
\* score submitted, its answer_counts is increased at every index by the
\* number of submitted answers that are that index, and the statistics of
\* the other questions are as they were.
C39_AllOrNothing ==
    \A q \in SummarizedQuestions :
        LET r == _append_data(q, questions.dict)
            was == questions.dict[q.id]
            is == r.dict[q.id]
            n == Len(was.answer_counts)
        IN \/ r.outcome = "rejected" /\ r.exc = "ok"
                /\ r.dict = questions.dict
           \/ /\ r.outcome = "accepted" /\ r.exc = "ok"
              /\ \A j \in 1..Len(q.answers.items) :
                     q.answers.items[j].val \in 0..(n - 1)
              /\ is.num_attempts = was.num_attempts + 1
              /\ is.score = was.score + q.score.val
              /\ Len(is.answer_counts) = n
              /\ \A i \in 0..(n - 1) :
                     is.answer_counts[i + 1]
                         = was.answer_counts[i + 1]
                               + Submitted(q.answers.items, i)
              /\ \A id \in DOMAIN questions.dict \ {q.id} :
                     r.dict[id] = questions.dict[id]

====
